---- MODULE Spec2Model ----
(***************************************************************************)
(* A model of the trains game engine: the full-knowledge state            *)
(* (KnownState), the partial-knowledge state (State), the game actor      *)
(* (GameActor / SimulatedGameActor), the play_game driver loop and the    *)
(* search actors.                                                          *)
(***************************************************************************)
EXTENDS Integers, FiniteSets, Sequences, TLC

(***************************************************************************)
(* Bounds of the model.                                                    *)
(***************************************************************************)
\* Train cards of each kind in the box (Box.small holds 10, 10 and 8).
NumRed == 2
NumBlue == 2
NumWild == 2
\* Trains each player starts with (Box.small gives 3).
StartingTrains == 2
\* Accepted actions through which the engine is driven.
MaxSteps == 10
MaxStateSteps == 6
\* Accepted actions through which the game whose first turn is its last is
\* driven.
MaxLastTurnSteps == 8
\* The shuffled piles the engine is driven from.
MaxTrainShuffles == 3
MaxDestinationShuffles == 1
\* How far below 0 or above the length of the route a typed --wildcards may be.
MaxMistyped == 1
\* Accepted actions through which the engine is driven from the middle of the
\* first turn of a game dealt from the pile WildsApart.
MaxWildsApartSteps == 7

\* The greatest count of one kind of card in the collections handed to the
\* train-card functions.
MaxCount == 2
\* The largest hand size given to probability_of_having_cards.
MaxHandSize == 3

\* The boxes handed to the double-route checks: the greatest number of
\* players and the greatest number of routes already built.
MaxPlayers == 3
MaxBuilt == 2

\* The chance nodes handed to the Monte-Carlo search: the greatest number of
\* outcomes, the greatest utility of an outcome, the greatest breadth, and
\* the number of equal parts of 1 the probabilities are made of.
MaxOutcomes == 3
MaxUtility == 2
MaxBreadth == 2
ProbabilityParts == 2

\* The decision nodes handed to the search actors: the greatest number of
\* legal actions and the greatest depth.
MaxSuccessors == 3
MaxDepth == 2

\* MctsActor: the greatest iteration budget of an actor, and the calls of
\* get_action and of observe_action made on an actor on its own.
MaxIterations == 2
MaxGetActions == 1
MaxMctsSteps == 3
\* The trees the methods of _Node are called on: the greatest number of
\* nodes and of calls of backup.
MaxNodes == 3
MaxBackups == 2

(***************************************************************************)
(* The box: Box.small with two players, a reduced train-card deck and      *)
(* fewer trains.                                                           *)
(***************************************************************************)
players == <<"p1", "p2">>
PlayerSet == {players[i] : i \in 1..Len(players)}
NoPlayer == "game"

RECURSIVE IndexOf(_, _, _)
IndexOf(seq, x, i) == IF seq[i] = x THEN i ELSE IndexOf(seq, x, i + 1)

next_player_map(p) == players[(IndexOf(players, p, 1) % Len(players)) + 1]

Wild == "wild"
colors == {"red", "blue"}
Kinds == colors \cup {Wild}

box_train_cards == [k \in Kinds |-> CASE k = "red" -> NumRed
                                      [] k = "blue" -> NumBlue
                                      [] OTHER -> NumWild]

starting_train_count == StartingTrains
starting_destination_cards_min == 1
starting_destination_cards_max == 2
dealt_destination_cards_min == 1
dealt_destination_cards_max == 2
starting_train_cards_count == 1
starting_score == 1
double_routes_player_minimum == 3
trains_to_end == 1
wildcards_to_clear == 2
face_up_train_cards == 2

Gray == "gray"
RouteTable ==
    [r1 |-> [cities |-> {"A", "C"}, color |-> "red",  length |-> 1],
     r2 |-> [cities |-> {"A", "E"}, color |-> Gray,   length |-> 2],
     r3 |-> [cities |-> {"B", "C"}, color |-> "blue", length |-> 1],
     r4 |-> [cities |-> {"C", "D"}, color |-> "blue", length |-> 1],
     r5 |-> [cities |-> {"C", "D"}, color |-> Gray,   length |-> 1],
     r6 |-> [cities |-> {"D", "E"}, color |-> Gray,   length |-> 1],
     r7 |-> [cities |-> {"D", "F"}, color |-> "red",  length |-> 1]]
Routes == DOMAIN RouteTable
Cities == UNION {RouteTable[r].cities : r \in Routes}

double_routes(r) ==
    {q \in Routes : RouteTable[q].cities = RouteTable[r].cities} \ {r}

route_point_values(len) == IF len = 1 THEN 1 ELSE 3

CardTable ==
    [d1 |-> [cities |-> {"A", "F"}, value |-> 6],
     d2 |-> [cities |-> {"A", "E"}, value |-> 3],
     d3 |-> [cities |-> {"B", "D"}, value |-> 4],
     d4 |-> [cities |-> {"C", "D"}, value |-> 1],
     d5 |-> [cities |-> {"C", "F"}, value |-> 2],
     d6 |-> [cities |-> {"E", "F"}, value |-> 2]]
DestinationCards == DOMAIN CardTable

RECURSIVE SumValues(_)
SumValues(cards) ==
    IF cards = {} THEN 0
    ELSE LET c == CHOOSE c \in cards : TRUE
         IN CardTable[c].value + SumValues(cards \ {c})

(***************************************************************************)
(* TrainCards: a frozendict from card kind to count whose lookup of a      *)
(* missing key gives 0.  The key set is part of the value.                 *)
(***************************************************************************)
EmptyTrainCards == [k \in {} |-> 0]

Get(tc, k) == IF k \in DOMAIN tc THEN tc[k] ELSE 0

RECURSIVE SumOver(_, _)
SumOver(tc, keys) ==
    IF keys = {} THEN 0
    ELSE LET k == CHOOSE k \in keys : TRUE
         IN tc[k] + SumOver(tc, keys \ {k})

total(tc) == SumOver(tc, DOMAIN tc)

len(tc) == Cardinality(DOMAIN tc)

incrementing(tc, key, value) ==
    [k \in DOMAIN tc \cup {key} |-> Get(tc, k) + (IF k = key THEN value ELSE 0)]

merge_train_cards(a, b) ==
    [k \in DOMAIN a \cup DOMAIN b |-> Get(a, k) + Get(b, k)]

\* subtract_train_cards keeping every difference, the negative ones too.
subtract_train_cards_unfloored(original, minus) ==
    LET keys == DOMAIN original \cup DOMAIN minus
    IN << [k \in keys |-> Get(original, k) - Get(minus, k)], EmptyTrainCards >>

subtract_train_cards(original, minus) ==
    LET keys == DOMAIN original \cup DOMAIN minus
        diff(k) == Get(original, k) - Get(minus, k)
    IN << [k \in {x \in keys : diff(x) > 0} |-> diff(k)],
          [k \in {x \in keys : diff(x) < 0} |-> 0 - diff(k)] >>

sufficient_cards_to_build(route, cards) ==
    IF RouteTable[route].color = Gray
    THEN LET colored == {cards[k] : k \in DOMAIN cards \ {Wild}}
             max_color_card_set ==
                 IF colored = {} THEN 0
                 ELSE CHOOSE m \in colored : \A n \in colored : n <= m
         IN Get(cards, Wild) + max_color_card_set >= RouteTable[route].length
    ELSE Get(cards, Wild) + Get(cards, RouteTable[route].color)
             >= RouteTable[route].length

(***************************************************************************)
(* Clusters: the components a player's routes connect.                     *)
(***************************************************************************)
connect(clusters, a, b) ==
    LET cities == {a, b}
        clusters_to_merge == {c \in clusters : c \cap cities # {}}
        rest == clusters \ clusters_to_merge
    IN rest \cup {cities \cup UNION clusters_to_merge}

is_connected(clusters, cities) == \E c \in clusters : cities \subseteq c

RouteEnds(r) ==
    LET a == CHOOSE a \in RouteTable[r].cities : TRUE
        b == CHOOSE b \in RouteTable[r].cities : b # a
    IN <<a, b>>

(***************************************************************************)
(* Turn states.                                                            *)
(***************************************************************************)
NoTurn == [type |-> "None", player |-> NoPlayer, last_turn_started |-> FALSE]

Turn(type, player, last) ==
    [type |-> type, player |-> player, last_turn_started |-> last,
     count |-> 0, to_player |-> NoPlayer, next_turn_state |-> NoTurn]

Brief(t) ==
    [type |-> t.type, player |-> t.player,
     last_turn_started |-> t.last_turn_started]

InitialTurn == Turn("InitialTurn", NoPlayer, FALSE)
GameOverTurn == Turn("GameOverTurn", NoPlayer, FALSE)
RevealFinalDestinationCardsTurn ==
    Turn("RevealFinalDestinationCardsTurn", NoPlayer, FALSE)
RevealInitialDestinationCardChoicesTurn ==
    Turn("RevealInitialDestinationCardChoicesTurn", NoPlayer, FALSE)
PlayerInitialDestinationCardChoiceTurn(p) ==
    Turn("PlayerInitialDestinationCardChoiceTurn", p, FALSE)
PlayerStartTurn(last, p) == Turn("PlayerStartTurn", p, last)
PlayerTrainCardDrawMidTurn(last, p) == Turn("PlayerTrainCardDrawMidTurn", p, last)
PlayerDestinationCardDrawMidTurn(last, p) ==
    Turn("PlayerDestinationCardDrawMidTurn", p, last)
\* A game turn: its player property is None, the receiver is to_player.
DestinationCardDealTurn(last, p) ==
    [Turn("DestinationCardDealTurn", NoPlayer, last) EXCEPT !.to_player = p]
TrainCardDealTurn(count, to_player, next) ==
    [Turn("TrainCardDealTurn", NoPlayer, FALSE) EXCEPT
        !.count = count, !.to_player = to_player, !.next_turn_state = Brief(next)]

Unbrief(t) == Turn(t.type, t.player, t.last_turn_started)

\* Mutant: the turn is handed on although the last turn has started.
make_or_end_handing_on(last_turn_started, player) ==
    PlayerStartTurn(last_turn_started, player)

make_or_end(last_turn_started, player) ==
    IF last_turn_started THEN RevealFinalDestinationCardsTurn
    ELSE PlayerStartTurn(last_turn_started, player)

PlayerTurnTypes ==
    {"PlayerInitialDestinationCardChoiceTurn", "PlayerStartTurn",
     "PlayerTrainCardDrawMidTurn", "PlayerDestinationCardDrawMidTurn"}

(***************************************************************************)
(* KnownState: the full-knowledge game state and its transition function.  *)
(***************************************************************************)
UnexpectedAction == [error |-> "unexpected action type"]
IsError(r) == "error" \in DOMAIN r

\* The turn state of a state; NoTurn once next_state has raised.
TurnStateOf(s) == IF IsError(s) THEN NoTurn ELSE s.turn_state

KnownHandState_make ==
    [destination_cards |-> {}, unselected_destination_cards |-> {},
     train_cards |-> EmptyTrainCards, remaining_trains |-> starting_train_count,
     points_so_far |-> starting_score, complete_destination_cards |-> {},
     incomplete_destination_cards |-> {}]

KnownState_make ==
    [hands |-> [p \in PlayerSet |-> KnownHandState_make],
     discarded_train_cards |-> EmptyTrainCards,
     face_up_train_cards |-> EmptyTrainCards,
     train_card_pile_distribution |-> box_train_cards,
     destination_card_pile_distribution |-> DestinationCards,
     destination_card_pile_size |-> Cardinality(DestinationCards),
     built_routes |-> [r \in {} |-> NoPlayer],
     built_clusters |-> [p \in PlayerSet |-> {}],
     turn_state |-> InitialTurn]

Known_perform_train_draw(s, action, last_turn_started, second_draw) ==
    LET player == s.turn_state.player
        old_hand == s.hands[player]
    IN IF action.draw_known
       THEN [s EXCEPT
               !.turn_state = TrainCardDealTurn(1, NoPlayer,
                   IF second_draw \/ action.selected_card_if_known = Wild
                   THEN make_or_end(last_turn_started, next_player_map(player))
                   ELSE PlayerTrainCardDrawMidTurn(last_turn_started, player)),
               !.hands[player].train_cards =
                   incrementing(old_hand.train_cards,
                                action.selected_card_if_known, 1),
               !.face_up_train_cards =
                   incrementing(s.face_up_train_cards,
                                action.selected_card_if_known, -1)]
       ELSE [s EXCEPT
               !.turn_state = TrainCardDealTurn(1, player,
                   IF second_draw
                   THEN make_or_end(last_turn_started, next_player_map(player))
                   ELSE PlayerTrainCardDrawMidTurn(last_turn_started, player))]

\* Mutant: the cards a player gives back are not returned to the pile.
Known_initial_choice_not_returned(s, action) ==
    LET player == s.turn_state.player
        next_player == next_player_map(player)
    IN [s EXCEPT
          !.turn_state = IF next_player = players[1]
                         THEN PlayerStartTurn(FALSE, next_player)
                         ELSE PlayerInitialDestinationCardChoiceTurn(next_player),
          !.hands[player].unselected_destination_cards = {},
          !.hands[player].destination_cards = action.selected_cards,
          !.hands[player].incomplete_destination_cards = action.selected_cards]
Known_initial_choice(s, action) ==
    LET player == s.turn_state.player
        next_player == next_player_map(player)
        next_turn == IF next_player = players[1]
                     THEN PlayerStartTurn(FALSE, next_player)
                     ELSE PlayerInitialDestinationCardChoiceTurn(next_player)
        old_hand == s.hands[player]
    IN [s EXCEPT
          !.turn_state = next_turn,
          !.hands[player].unselected_destination_cards = {},
          !.hands[player].destination_cards = action.selected_cards,
          !.hands[player].incomplete_destination_cards = action.selected_cards,
          !.destination_card_pile_distribution =
              @ \cup (old_hand.unselected_destination_cards \ action.selected_cards),
          !.destination_card_pile_size =
              @ + (Cardinality(old_hand.unselected_destination_cards)
                   - Cardinality(action.selected_cards))]

Known_last_turn_started(s) ==
    s.turn_state.last_turn_started
      \/ s.hands[s.turn_state.player].remaining_trains <= trains_to_end

Known_pass(s) ==
    [s EXCEPT !.turn_state =
        make_or_end(Known_last_turn_started(s), next_player_map(s.turn_state.player))]

\* Mutant: the completed destination cards score nothing at the build.
Known_build_route_points_only(s, action) ==
    LET player == s.turn_state.player
        old_hand == s.hands[player]
        ends == RouteEnds(action.route)
        new_cluster == connect(s.built_clusters[player], ends[1], ends[2])
        completed_destination_cards ==
            {card \in old_hand.incomplete_destination_cards :
                is_connected(new_cluster, CardTable[card].cities)}
    IN [s EXCEPT
          !.turn_state = make_or_end(Known_last_turn_started(s),
                                     next_player_map(player)),
          !.built_routes =
              [r \in DOMAIN s.built_routes \cup {action.route} |->
                  IF r = action.route THEN player ELSE s.built_routes[r]],
          !.built_clusters[player] = new_cluster,
          !.hands[player].train_cards =
              subtract_train_cards(old_hand.train_cards, action.train_cards)[1],
          !.hands[player].remaining_trains =
              old_hand.remaining_trains - RouteTable[action.route].length,
          !.hands[player].points_so_far =
              old_hand.points_so_far
                + route_point_values(RouteTable[action.route].length),
          !.hands[player].complete_destination_cards =
              old_hand.complete_destination_cards \cup completed_destination_cards,
          !.hands[player].incomplete_destination_cards =
              old_hand.incomplete_destination_cards \ completed_destination_cards,
          !.discarded_train_cards =
              merge_train_cards(s.discarded_train_cards, action.train_cards)]

Known_build(s, action) ==
    LET player == s.turn_state.player
        old_hand == s.hands[player]
        ends == RouteEnds(action.route)
        new_cluster == connect(s.built_clusters[player], ends[1], ends[2])
        completed_destination_cards ==
            {card \in old_hand.incomplete_destination_cards :
                is_connected(new_cluster, CardTable[card].cities)}
    IN [s EXCEPT
          !.turn_state = make_or_end(Known_last_turn_started(s),
                                     next_player_map(player)),
          !.built_routes =
              [r \in DOMAIN s.built_routes \cup {action.route} |->
                  IF r = action.route THEN player ELSE s.built_routes[r]],
          !.built_clusters[player] = new_cluster,
          !.hands[player].train_cards =
              subtract_train_cards(old_hand.train_cards, action.train_cards)[1],
          !.hands[player].remaining_trains =
              old_hand.remaining_trains - RouteTable[action.route].length,
          !.hands[player].points_so_far =
              old_hand.points_so_far
                + route_point_values(RouteTable[action.route].length)
                + SumValues(completed_destination_cards),
          !.hands[player].complete_destination_cards =
              old_hand.complete_destination_cards \cup completed_destination_cards,
          !.hands[player].incomplete_destination_cards =
              old_hand.incomplete_destination_cards \ completed_destination_cards,
          !.discarded_train_cards =
              merge_train_cards(s.discarded_train_cards, action.train_cards)]

Known_destination_pick(s) ==
    [s EXCEPT !.turn_state =
        DestinationCardDealTurn(Known_last_turn_started(s), s.turn_state.player)]

Known_destination_selection(s, action) ==
    LET player == s.turn_state.player
        old_hand == s.hands[player]
    IN [s EXCEPT
          !.turn_state = make_or_end(s.turn_state.last_turn_started,
                                     next_player_map(player)),
          !.hands[player].unselected_destination_cards = {},
          !.hands[player].destination_cards =
              old_hand.destination_cards \cup action.selected_cards,
          !.hands[player].incomplete_destination_cards =
              old_hand.incomplete_destination_cards \cup action.selected_cards,
          !.destination_card_pile_distribution =
              @ \cup (old_hand.unselected_destination_cards \ action.selected_cards),
          !.destination_card_pile_size =
              @ + Cardinality(old_hand.unselected_destination_cards)
                - Cardinality(action.selected_cards)]

\* Mutant: the dealt cards are chosen from in a phase whose flag is reset.
Known_destination_deal_flag_reset(s, action) ==
    LET to_player == s.turn_state.to_player
    IN [s EXCEPT
          !.turn_state = PlayerDestinationCardDrawMidTurn(FALSE, to_player),
          !.hands[to_player].unselected_destination_cards = action.cards,
          !.destination_card_pile_distribution = @ \ action.cards,
          !.destination_card_pile_size = @ - Cardinality(action.cards)]

Known_destination_deal(s, action) ==
    LET to_player == s.turn_state.to_player
    IN [s EXCEPT
          !.turn_state = PlayerDestinationCardDrawMidTurn(
                             s.turn_state.last_turn_started, to_player),
          !.hands[to_player].unselected_destination_cards = action.cards,
          !.destination_card_pile_distribution = @ \ action.cards,
          !.destination_card_pile_size = @ - Cardinality(action.cards)]

Known_train_deal(s, action) ==
    IF s.turn_state.to_player = NoPlayer
    THEN LET new_face_up_cards ==
                 merge_train_cards(s.face_up_train_cards, action.cards)
         IN IF Get(new_face_up_cards, Wild) >= wildcards_to_clear
            THEN [s EXCEPT
                    !.face_up_train_cards = EmptyTrainCards,
                    !.turn_state = TrainCardDealTurn(face_up_train_cards, NoPlayer,
                                       s.turn_state.next_turn_state)]
            ELSE [s EXCEPT
                    !.turn_state = Unbrief(s.turn_state.next_turn_state),
                    !.face_up_train_cards = new_face_up_cards]
    ELSE LET to_player == s.turn_state.to_player
             old_hand == s.hands[to_player]
         IN [s EXCEPT
               !.turn_state = Unbrief(s.turn_state.next_turn_state),
               !.train_card_pile_distribution =
                   subtract_train_cards(@, action.cards)[1],
               !.hands[to_player].train_cards =
                   merge_train_cards(old_hand.train_cards, action.cards)]

RECURSIVE MergeAll(_, _)
MergeAll(f, ps) ==
    IF ps = {} THEN EmptyTrainCards
    ELSE LET p == CHOOSE p \in ps : TRUE
         IN merge_train_cards(f[p], MergeAll(f, ps \ {p}))

Known_initial_deal(s, action) ==
    [s EXCEPT
       !.hands = [p \in PlayerSet |->
                    [s.hands[p] EXCEPT
                       !.unselected_destination_cards = action.destination_cards[p],
                       !.train_cards = action.train_cards[p]]],
       !.destination_card_pile_distribution =
           @ \ UNION {action.destination_cards[p] : p \in PlayerSet},
       !.destination_card_pile_size =
           @ - Cardinality(action.destination_cards[players[1]])
             - Cardinality(action.destination_cards[players[2]]),
       !.train_card_pile_distribution =
           subtract_train_cards(@, MergeAll(action.train_cards, PlayerSet))[1],
       !.turn_state = PlayerInitialDestinationCardChoiceTurn(players[1]),
       !.face_up_train_cards =
           merge_train_cards(s.face_up_train_cards, action.face_up_train_cards)]

\* Mutant: the PassAction of a finished game is taken as that of a turn and
\* hands the turn to the first player.
Known_game_over_passes_turn(s, action) ==
    IF action.type = "PassAction"
    THEN [s EXCEPT !.turn_state = make_or_end(FALSE, players[1])]
    ELSE UnexpectedAction

\* The GameOverTurn branch of next_state.
Known_game_over(s, action) ==
    IF action.type = "PassAction" THEN s ELSE UnexpectedAction

KnownState_next_state(s, action) ==
    LET t == s.turn_state.type
        a == action.type
    IN CASE t = "PlayerInitialDestinationCardChoiceTurn" ->
              IF a = "DestinationCardSelectionAction"
              THEN Known_initial_choice(s, action) ELSE UnexpectedAction
         [] t = "PlayerStartTurn" ->
              CASE a = "PassAction" -> Known_pass(s)
                [] a = "BuildAction" -> Known_build(s, action)
                [] a = "TrainCardPickAction" ->
                     Known_perform_train_draw(s, action,
                                              Known_last_turn_started(s), FALSE)
                [] a = "DestinationCardPickAction" -> Known_destination_pick(s)
                [] OTHER -> UnexpectedAction
         [] t = "PlayerTrainCardDrawMidTurn" ->
              IF a = "TrainCardPickAction"
              THEN Known_perform_train_draw(s, action,
                                            s.turn_state.last_turn_started, TRUE)
              ELSE UnexpectedAction
         [] t = "PlayerDestinationCardDrawMidTurn" ->
              IF a = "DestinationCardSelectionAction"
              THEN Known_destination_selection(s, action) ELSE UnexpectedAction
         [] t = "DestinationCardDealTurn" ->
              IF a = "DestinationCardDealAction"
              THEN Known_destination_deal(s, action) ELSE UnexpectedAction
         [] t = "TrainCardDealTurn" ->
              IF a = "TrainCardDealAction"
              THEN Known_train_deal(s, action) ELSE UnexpectedAction
         [] t = "GameOverTurn" -> Known_game_over(s, action)
         [] t = "InitialTurn" ->
              IF a = "InitialDealAction"
              THEN Known_initial_deal(s, action) ELSE UnexpectedAction
         [] t = "RevealFinalDestinationCardsTurn" ->
              IF a = "RevealFinalDestinationCardsAction"
              THEN [s EXCEPT !.turn_state = GameOverTurn] ELSE UnexpectedAction
         [] OTHER -> UnexpectedAction

(***************************************************************************)
(* Actions.                                                                *)
(***************************************************************************)
PassAction == [type |-> "PassAction"]
DestinationCardPickAction == [type |-> "DestinationCardPickAction"]
TrainCardPickAction(draw_known, card) ==
    [type |-> "TrainCardPickAction", draw_known |-> draw_known,
     selected_card_if_known |-> card]
BuildAction(route, cards) ==
    [type |-> "BuildAction", route |-> route, train_cards |-> cards]
DestinationCardSelectionAction(cards) ==
    [type |-> "DestinationCardSelectionAction", selected_cards |-> cards]
DestinationCardDealAction(cards) ==
    [type |-> "DestinationCardDealAction", cards |-> cards]
TrainCardDealAction(cards) == [type |-> "TrainCardDealAction", cards |-> cards]
RevealFinalDestinationCardsAction(cards) ==
    [type |-> "RevealFinalDestinationCardsAction", destination_cards |-> cards]
RevealDestinationCardSelectionsAction(kept) ==
    [type |-> "RevealDestinationCardSelectionsAction",
     kept_destination_cards |-> kept]
InitialDealAction(train_cards, destination_cards, face_up) ==
    [type |-> "InitialDealAction", train_cards |-> train_cards,
     destination_cards |-> destination_cards, face_up_train_cards |-> face_up]

combinations(S, k) == {T \in SUBSET S : Cardinality(T) = k}

Min(a, b) == IF a <= b THEN a ELSE b
Max(a, b) == IF a >= b THEN a ELSE b

\* ------------------------------------------------------------------------
\* probability_of_having_cards of util.py.  The floating-point quotients of
\* the code are exact fractions in lowest terms here.

Rat(num, den) == [num |-> num, den |-> den]

RatAdd(x, y) == Rat(x.num * y.den + y.num * x.den, x.den * y.den)

RatMul(x, y) == Rat(x.num * y.num, x.den * y.den)

RatEq(x, y) == x.num * y.den = y.num * x.den

RECURSIVE SumOfSeq(_)
SumOfSeq(xs) == IF xs = <<>> THEN 0 ELSE Head(xs) + SumOfSeq(Tail(xs))

RECURSIVE Gcd(_, _)
Gcd(a, b) == IF b = 0 THEN a ELSE Gcd(b, a % b)

Abs(x) == IF x < 0 THEN 0 - x ELSE x

\* The fraction num / den in lowest terms with a positive denominator.
Fraction(num, den) ==
    LET g == Gcd(Abs(num), Abs(den))
        sign == IF den < 0 THEN 0 - 1 ELSE 1
    IN Rat(sign * (num \div g), sign * (den \div g))

\* A number returned by the call, or the exception that left it.
Number(x) == [raised |-> "", value |-> x]

ZeroDivisionError == [raised |-> "ZeroDivisionError", value |-> Rat(0, 1)]

\* prob += draw_prob * sub, where sub may have raised.
Accumulate(prob, draw_prob, sub) ==
    IF sub.raised # "" THEN sub
    ELSE LET term == RatMul(draw_prob, sub.value)
             sum == RatAdd(prob.value, term)
         IN Number(Fraction(sum.num, sum.den))

\* xs[:i] + xs[i + 1:]
Without(xs, i) == SubSeq(xs, 1, i - 1) \o SubSeq(xs, i + 1, Len(xs))

RECURSIVE probability_of_having_cards_helper(_, _, _, _, _)
RECURSIVE probability_of_having_cards_loop(_, _, _, _, _, _, _)
\* The loop over the needed entries from the i-th on, then the draw of a
\* card that is not needed.
probability_of_having_cards_loop(i, prob, remaining, needed_cards, favorables, total_favorables, total_unfavorables) ==
    LET total_cards == total_favorables + total_unfavorables
    IN IF prob.raised # "" THEN prob
       ELSE IF i > Len(needed_cards)
       THEN IF total_unfavorables > 0
            THEN IF total_cards = 0 THEN ZeroDivisionError
                 ELSE Accumulate(prob,
                          Fraction(total_unfavorables, total_cards),
                          probability_of_having_cards_helper(
                              remaining - 1, needed_cards, favorables,
                              total_favorables, total_unfavorables - 1))
            ELSE prob
       ELSE IF needed_cards[i] > favorables[i] THEN Number(Rat(0, 1))
       ELSE IF total_cards = 0 THEN ZeroDivisionError
       ELSE probability_of_having_cards_loop(
                i + 1,
                Accumulate(prob,
                    Fraction(favorables[i], total_cards),
                    IF needed_cards[i] = 1
                    THEN probability_of_having_cards_helper(
                             remaining - 1,
                             Without(needed_cards, i), Without(favorables, i),
                             total_favorables - favorables[i],
                             total_unfavorables + favorables[i] - 1)
                    ELSE probability_of_having_cards_helper(
                             remaining - 1,
                             [needed_cards EXCEPT ![i] = @ - 1],
                             [favorables EXCEPT ![i] = @ - 1],
                             total_favorables - 1, total_unfavorables)),
                remaining, needed_cards, favorables,
                total_favorables, total_unfavorables)

probability_of_having_cards_helper(remaining, needed_cards, favorables, total_favorables, total_unfavorables) ==
    IF Len(needed_cards) = 0 THEN Number(Rat(1, 1))
    ELSE IF remaining = 0 THEN Number(Rat(0, 1))
    ELSE probability_of_having_cards_loop(
             1, Number(Rat(0, 1)), remaining, needed_cards, favorables,
             total_favorables, total_unfavorables)

\* cards is the frozendict as the sequence of its items, <<kind, count>>, in
\* its order of iteration.
probability_of_having_cards(cards, hand_size, pile_distribution) ==
    LET needed_cards == [i \in 1..Len(cards) |-> cards[i][2]]
        favorables == [i \in 1..Len(cards) |->
                          Get(pile_distribution, cards[i][1])]
        total_favorables == SumOfSeq(favorables)
        total_unfavorables == total(pile_distribution) - total_favorables
    IN probability_of_having_cards_helper(
           hand_size, needed_cards, favorables,
           total_favorables, total_unfavorables)

\* The TrainCards of a sequence of items.
TrainCardsOf(items) ==
    [k \in {items[i][1] : i \in DOMAIN items} |->
        items[CHOOSE i \in DOMAIN items : items[i][1] = k][2]]


(***************************************************************************)
(* KnownState.get_legal_actions.                                           *)
(***************************************************************************)
get_train_card_draw_actions(s, second) ==
    {TrainCardPickAction(TRUE, color) :
        color \in {c \in DOMAIN s.face_up_train_cards :
                     s.face_up_train_cards[c] > 0 /\ ~(second /\ c = Wild)}}
    \cup {TrainCardPickAction(FALSE, Wild)}

\* Mutant: the routes next to a route the player built are not excluded.
double_route_condition_any_owner(box_players, built_routes, player, route) ==
    \/ box_players >= double_routes_player_minimum
    \/ ~\E double \in double_routes(route) : double \in DOMAIN built_routes

\* The double-route condition of get_build_actions in a box of box_players
\* players.
double_route_condition(box_players, built_routes, player, route) ==
    \/ /\ box_players >= double_routes_player_minimum
       /\ ~\E double \in double_routes(route) :
             double \in DOMAIN built_routes /\ built_routes[double] = player
    \/ ~\E double \in double_routes(route) : double \in DOMAIN built_routes

double_route_allowed(s, player, route) ==
    double_route_condition(Len(players), s.built_routes, player, route)

get_build_actions(s, player) ==
    LET hand == s.hands[player]
        open == {route \in Routes :
                    /\ route \notin DOMAIN s.built_routes
                    /\ RouteTable[route].length <= hand.remaining_trains
                    /\ double_route_allowed(s, player, route)}
        route_colors(route) == IF RouteTable[route].color = Gray THEN colors
                               ELSE {RouteTable[route].color}
        length(route) == RouteTable[route].length
        max_color_cards(route, color) ==
            Min(Get(hand.train_cards, color), length(route))
        max_wildcards(route) == Min(Get(hand.train_cards, Wild), length(route) - 1)
    IN UNION {
         {BuildAction(route,
                      [k \in {color, Wild} |->
                          IF k = color THEN color_cards
                          ELSE length(route) - color_cards]) :
              color_cards \in (length(route) - max_wildcards(route))
                                .. max_color_cards(route, color)}
         : <<route, color>> \in
              {<<r, c>> \in open \X colors : c \in route_colors(r)}}
       \cup {BuildAction(route, [k \in {Wild} |-> length(route)]) :
                route \in {r \in open :
                             Get(hand.train_cards, Wild) >= length(r)}}

\* The order in which the shuffles below lay out the kinds.
KindOrder == <<"wild", "blue", "red">>

\* The orders in which a set, or the keys of a frozendict, can be iterated:
\* the order of a set of strings changes with the hash seed of the run, and
\* subtract_train_cards builds its result by iterating such a set.
Iterations(S) ==
    {order \in [1..Cardinality(S) -> S] :
        \A x \in S : \E i \in 1..Cardinality(S) : order[i] = x}

\* A TrainCards as the sequence of its items <<kind, count>> in an order of
\* iteration, and the sequences of every order.
ItemsIn(tc, order) == [i \in DOMAIN order |-> <<order[i], tc[order[i]]>>]

Items(tc) == {ItemsIn(tc, order) : order \in Iterations(DOMAIN tc)}

Reverse(xs) == [i \in DOMAIN xs |-> xs[Len(xs) + 1 - i]]

\* The inner _deal_train_cards of State._deal_train_cards.  current_deck and
\* deal_so_far are the Cons lists as sequences, head first; a deal is the
\* TrainCards(Cons.iterate(deal_so_far)) as the sequence of its items.
RECURSIVE deal_train_cards_from(_, _, _)
deal_train_cards_from(remaining_cards, current_deck, deal_so_far) ==
    IF remaining_cards = 0 \/ current_deck = <<>> THEN {deal_so_far}
    ELSE LET color == Head(current_deck)[1]
             color_cards == Head(current_deck)[2]
             max_count == Max(color_cards, remaining_cards)
         IN UNION {deal_train_cards_from(
                       remaining_cards - count, Tail(current_deck),
                       << <<color, count>> >> \o deal_so_far)
                   : count \in 0..max_count}

\* State._deal_train_cards of a deck given as the sequence of its items:
\* Cons.make(deck.items()) is walked, the last item first, and the
\* probability of every deal is computed as it is yielded.  The deals, or
\* the exception the generator raises.
deal_train_cards(cards, deck) ==
    LET deals == deal_train_cards_from(cards, Reverse(deck), <<>>)
    IN IF \E deal \in deals :
             probability_of_having_cards(deal, cards, TrainCardsOf(deck)).raised
                # ""
       THEN [raised |-> "ZeroDivisionError", deals |-> {}]
       ELSE [raised |-> "", deals |-> {TrainCardsOf(deal) : deal \in deals}]

\* The actions get_legal_actions yields, none raised.
Yielded(actions) == [raised |-> "", actions |-> actions]

\* KnownState.get_legal_actions.  pile is train_card_pile_distribution as
\* the sequence of its items in the order the run iterates them; only the
\* TrainCardDealTurn branch iterates the pile.
get_legal_actions(s, pile) ==
    LET t == s.turn_state.type
    IN CASE t = "InitialTurn" -> Yielded({})
         [] t \in {"PlayerInitialDestinationCardChoiceTurn",
                   "PlayerDestinationCardDrawMidTurn"} ->
              LET lowest == IF t = "PlayerInitialDestinationCardChoiceTurn"
                            THEN starting_destination_cards_min
                            ELSE dealt_destination_cards_min
                  hand == s.hands[s.turn_state.player]
              IN Yielded(UNION {
                   {DestinationCardSelectionAction(sel) :
                       sel \in combinations(hand.unselected_destination_cards,
                                            kept_cards)}
                   : kept_cards \in
                       lowest..Cardinality(hand.unselected_destination_cards)})
         [] t = "PlayerStartTurn" ->
              Yielded((IF s.destination_card_pile_size > 0
                       THEN {DestinationCardPickAction} ELSE {})
                      \cup get_train_card_draw_actions(s, FALSE)
                      \cup {PassAction}
                      \cup get_build_actions(s, s.turn_state.player))
         [] t = "PlayerTrainCardDrawMidTurn" ->
              Yielded(get_train_card_draw_actions(s, TRUE))
         [] t = "DestinationCardDealTurn" ->
              Yielded({DestinationCardDealAction(dealt) :
                  dealt \in combinations(
                      s.destination_card_pile_distribution,
                      Min(dealt_destination_cards_max,
                          s.destination_card_pile_size))})
         [] t = "TrainCardDealTurn" ->
              LET dealt == deal_train_cards(s.turn_state.count, pile)
              IN [raised |-> dealt.raised,
                  actions |-> {TrainCardDealAction(tc) : tc \in dealt.deals}]
         [] t = "GameOverTurn" -> Yielded({PassAction})
         [] t = "RevealFinalDestinationCardsTurn" ->
              Yielded({RevealFinalDestinationCardsAction(
                   [p \in PlayerSet |-> s.hands[p].destination_cards])})
         [] OTHER -> Yielded({})

\* The orders of the pile that get_legal_actions can meet in a state: every
\* order in the one phase that iterates the pile, one order elsewhere.
PileIterations(s) ==
    IF s.turn_state.type = "TrainCardDealTurn"
    THEN Items(s.train_card_pile_distribution)
    ELSE {ItemsIn(s.train_card_pile_distribution,
                  CHOOSE order \in Iterations(DOMAIN s.train_card_pile_distribution) :
                      TRUE)}

\* What list(state.get_legal_actions()) can give: one result for every order
\* in which the pile of the state can be iterated.
Listed(state) ==
    {get_legal_actions(state, pile) : pile \in PileIterations(state)}

\* The actions get_legal_actions yields in a state, in whatever order the
\* pile is iterated.
LegalActions(s) == UNION {legal.actions : legal \in Listed(s)}

(***************************************************************************)
(* GameActor: validation and recording of actions.                         *)
(***************************************************************************)
None == "None"
unexpected_action_message == "unexpected action type"

PlayerHand_make ==
    [destination_cards |-> {}, train_cards |-> EmptyTrainCards,
     remaining_trains |-> starting_train_count,
     unselected_destination_cards |-> {}]

RECURSIVE SumHands(_, _)
SumHands(hands, ps) ==
    IF ps = {} THEN 0
    ELSE LET p == CHOOSE p \in ps : TRUE
         IN total(hands[p].train_cards) + SumHands(hands, ps \ {p})

RECURSIVE SumDestinationCards(_, _)
SumDestinationCards(hands, ps) ==
    IF ps = {} THEN 0
    ELSE LET p == CHOOSE p \in ps : TRUE
         IN Cardinality(hands[p].destination_cards)
              + Cardinality(hands[p].unselected_destination_cards)
              + SumDestinationCards(hands, ps \ {p})

destination_card_deck_empty(g) ==
    Cardinality(DestinationCards)
        - SumDestinationCards(g.player_hands, PlayerSet) = 0

train_card_deck_empty(g) ==
    LET cards_not_in_pile == SumHands(g.player_hands, PlayerSet)
                               + len(g.face_up_train_cards)
                               + len(g.discarded_train_cards)
    IN total(box_train_cards) - cards_not_in_pile = 0

\* Mutant: the second draw is checked like the first.
verify_train_draw_as_first(g, action, second) ==
    IF action.draw_known
         /\ Get(g.face_up_train_cards, action.selected_card_if_known) <= 0
    THEN "There are no face up cards of the given color"
    ELSE IF ~action.draw_known /\ train_card_deck_empty(g)
    THEN "There are no train cards left to draw"
    ELSE None

verify_train_draw(g, action, second) ==
    IF action.draw_known
         /\ Get(g.face_up_train_cards, action.selected_card_if_known) <= 0
    THEN "There are no face up cards of the given color"
    ELSE IF ~action.draw_known /\ train_card_deck_empty(g)
    THEN "There are no train cards left to draw"
    ELSE IF second /\ action.draw_known /\ action.selected_card_if_known = Wild
    THEN "Cannot select wildcard on second draw"
    ELSE None

verify_destination_pick(g, action, min_cards) ==
    IF action.type = "DestinationCardSelectionAction"
    THEN IF Cardinality(action.selected_cards) < min_cards
         THEN "Number of selected destination cards must be at least min_cards"
         ELSE IF ~(action.selected_cards \subseteq
                     g.player_hands[g.turn_state.player].unselected_destination_cards)
         THEN "Selected destination cards are not valid"
         ELSE None
    ELSE unexpected_action_message

\* The two double-route rejections of validate_action in a box of
\* box_players players; None when neither is raised.
double_route_rejection(box_players, built_routes, player, route) ==
    IF box_players < double_routes_player_minimum
         /\ \E d \in double_routes(route) : d \in DOMAIN built_routes
    THEN "Cannot build double routes in games with less than N players"
    ELSE IF \E d \in double_routes(route) :
               d \in DOMAIN built_routes /\ built_routes[d] = player
    THEN "Cannot build route. You cannot build two routes next to each other"
    ELSE None

validate_build(g, action) ==
    LET player == g.turn_state.player
        rejection == double_route_rejection(Len(players), g.built_routes,
                                            player, action.route)
    IN IF action.route \in DOMAIN g.built_routes
       THEN "Route is already built"
       ELSE IF rejection # None
       THEN rejection
       ELSE IF ~sufficient_cards_to_build(action.route, action.train_cards)
                 \/ ~\A color \in DOMAIN action.train_cards :
                        action.train_cards[color]
                          <= Get(g.player_hands[player].train_cards, color)
       THEN "Not enough train cards to build route"
       ELSE IF g.player_hands[player].remaining_trains
                 < RouteTable[action.route].length
       THEN "Not enough trains to build route"
       ELSE None

validate_action(g, action) ==
    LET t == g.turn_state.type
        a == action.type
        only(type) == IF a = type THEN None ELSE unexpected_action_message
    IN CASE t = "PlayerInitialDestinationCardChoiceTurn" ->
              verify_destination_pick(g, action, starting_destination_cards_min)
         [] t = "PlayerStartTurn" ->
              CASE a = "PassAction" -> None
                [] a = "BuildAction" -> validate_build(g, action)
                [] a = "TrainCardPickAction" -> verify_train_draw(g, action, FALSE)
                [] a = "DestinationCardPickAction" ->
                     IF destination_card_deck_empty(g)
                     THEN "There are no destination cards left to draw"
                     ELSE None
                [] OTHER -> unexpected_action_message
         [] t = "PlayerTrainCardDrawMidTurn" ->
              IF a = "TrainCardPickAction"
              THEN verify_train_draw(g, action, TRUE)
              ELSE unexpected_action_message
         [] t = "PlayerDestinationCardDrawMidTurn" ->
              verify_destination_pick(g, action, dealt_destination_cards_min)
         [] t = "DestinationCardDealTurn" -> only("DestinationCardDealAction")
         [] t = "TrainCardDealTurn" -> only("TrainCardDealAction")
         [] t = "RevealInitialDestinationCardChoicesTurn" ->
              only("RevealDestinationCardSelectionsAction")
         [] t = "GameOverTurn" -> only("PassAction")
         [] t = "InitialTurn" -> only("InitialDealAction")
         [] t = "RevealFinalDestinationCardsTurn" ->
              only("RevealFinalDestinationCardsAction")
         [] OTHER -> unexpected_action_message

\* Mutant: the returned cards are put on top of the pile.
RECURSIVE recycle_destination_cards_on_top(_, _)
recycle_destination_cards_on_top(pile, cards) ==
    IF cards = <<>> THEN pile
    ELSE recycle_destination_cards_on_top(Append(pile, Head(cards)), Tail(cards))

\* SimulatedGameActor._recycle_destination_cards: each card of the iterable,
\* in the order it is iterated, goes to the bottom of the pile (index 1; the
\* last element is the top).
RECURSIVE recycle_destination_cards(_, _)
recycle_destination_cards(pile, cards) ==
    IF cards = <<>> THEN pile
    ELSE recycle_destination_cards(<<Head(cards)>> \o pile, Tail(cards))

\* The orders in which the frozenset of the cards a selection returns can be
\* iterated; the empty order for every other action.
ReturnedCards(g, action) ==
    IF action.type = "DestinationCardSelectionAction"
         /\ g.turn_state.type \in {"PlayerInitialDestinationCardChoiceTurn",
                                   "PlayerDestinationCardDrawMidTurn"}
    THEN Iterations(g.player_hands[g.turn_state.player]
                        .unselected_destination_cards \ action.selected_cards)
    ELSE {<<>>}

\* Mutant: the end-game threshold is never looked at.
Game_last_turn_started_flag_only(g) == g.turn_state.last_turn_started
Game_last_turn_started(g) ==
    g.turn_state.last_turn_started
      \/ g.player_hands[g.turn_state.player].remaining_trains <= trains_to_end

Game_perform_train_draw(g, action) ==
    IF action.draw_known
    THEN [g EXCEPT
            !.player_hands[g.turn_state.player].train_cards =
                incrementing(@, action.selected_card_if_known, 1),
            !.face_up_train_cards =
                incrementing(@, action.selected_card_if_known, -1)]
    ELSE g

\* Mutant: the unexpected action is swallowed instead of raised.
Raised_swallowed(g) == [actor |-> g, raised |-> FALSE]
\* raise unexpected_action_error: nothing was assigned before it.
Raised(g) == [actor |-> g, raised |-> TRUE]
Recorded(g, turn) == [actor |-> [g EXCEPT !.turn_state = turn], raised |-> FALSE]

\* returned: the cards the selection returns, as the frozenset iterates them
Game_selection(g, action, initial, returned) ==
    LET player == g.turn_state.player
        hand == g.player_hands[player]
        next_player == next_player_map(player)
        g1 == [g EXCEPT
                 !.destination_card_pile =
                     recycle_destination_cards(@, returned),
                 !.player_hands[player].destination_cards =
                     IF initial THEN action.selected_cards
                     ELSE @ \cup action.selected_cards,
                 !.player_hands[player].unselected_destination_cards = {}]
    IN IF initial
       THEN Recorded(g1, IF next_player = players[1]
                         THEN RevealInitialDestinationCardChoicesTurn
                         ELSE PlayerInitialDestinationCardChoiceTurn(next_player))
       ELSE Recorded(g1, make_or_end(g.turn_state.last_turn_started, next_player))

Game_build(g, action) ==
    LET player == g.turn_state.player
        g1 == [g EXCEPT
                 !.built_routes =
                     [r \in DOMAIN g.built_routes \cup {action.route} |->
                         IF r = action.route THEN player ELSE g.built_routes[r]],
                 !.player_hands[player].remaining_trains =
                     @ - RouteTable[action.route].length,
                 !.player_hands[player].train_cards =
                     subtract_train_cards(@, action.train_cards)[1],
                 !.discarded_train_cards =
                     merge_train_cards(@, action.train_cards)]
    IN Recorded(g1, make_or_end(Game_last_turn_started(g), next_player_map(player)))

\* Mutant: a first draw from the deck ends the turn.
Game_train_pick_deck_ends(g, action, second) ==
    LET player == g.turn_state.player
        g1 == Game_perform_train_draw(g, action)
        next_turn_state ==
            IF second
            THEN make_or_end(g.turn_state.last_turn_started, next_player_map(player))
            ELSE IF ~action.draw_known \/ action.selected_card_if_known = Wild
            THEN make_or_end(Game_last_turn_started(g), next_player_map(player))
            ELSE PlayerTrainCardDrawMidTurn(Game_last_turn_started(g), player)
    IN Recorded(g1, TrainCardDealTurn(
                        1, IF action.draw_known THEN NoPlayer ELSE player,
                        next_turn_state))
Game_train_pick(g, action, second) ==
    LET player == g.turn_state.player
        g1 == Game_perform_train_draw(g, action)
        next_turn_state ==
            IF second
            THEN make_or_end(g.turn_state.last_turn_started, next_player_map(player))
            ELSE IF action.draw_known /\ action.selected_card_if_known = Wild
            THEN make_or_end(Game_last_turn_started(g), next_player_map(player))
            ELSE PlayerTrainCardDrawMidTurn(Game_last_turn_started(g), player)
    IN Recorded(g1, TrainCardDealTurn(
                        1, IF action.draw_known THEN NoPlayer ELSE player,
                        next_turn_state))

Game_train_deal(g, action) ==
    IF g.turn_state.to_player = NoPlayer
    THEN LET face_up == merge_train_cards(g.face_up_train_cards, action.cards)
         IN IF Get(face_up, Wild) >= wildcards_to_clear
            THEN Recorded([g EXCEPT !.face_up_train_cards = EmptyTrainCards],
                          TrainCardDealTurn(face_up_train_cards, NoPlayer,
                                            g.turn_state.next_turn_state))
            ELSE Recorded([g EXCEPT !.face_up_train_cards = face_up],
                          Unbrief(g.turn_state.next_turn_state))
    ELSE Recorded([g EXCEPT
                     !.player_hands[g.turn_state.to_player].train_cards =
                         merge_train_cards(@, action.cards)],
                  Unbrief(g.turn_state.next_turn_state))

Game_initial_deal(g, action) ==
    Recorded([g EXCEPT
                !.player_hands =
                    [p \in PlayerSet |->
                        [g.player_hands[p] EXCEPT
                           !.train_cards = action.train_cards[p],
                           !.unselected_destination_cards =
                               action.destination_cards[p]]],
                !.face_up_train_cards =
                    merge_train_cards(@, action.face_up_train_cards)],
             PlayerInitialDestinationCardChoiceTurn(players[1]))

record_action(g, action, returned) ==
    LET t == g.turn_state.type
        a == action.type
    IN CASE t = "PlayerInitialDestinationCardChoiceTurn" ->
              IF a = "DestinationCardSelectionAction"
              THEN Game_selection(g, action, TRUE, returned) ELSE Raised(g)
         [] t = "PlayerStartTurn" ->
              CASE a = "PassAction" ->
                     Recorded(g, make_or_end(Game_last_turn_started(g),
                                             next_player_map(g.turn_state.player)))
                [] a = "BuildAction" -> Game_build(g, action)
                [] a = "TrainCardPickAction" -> Game_train_pick(g, action, FALSE)
                [] a = "DestinationCardPickAction" ->
                     Recorded(g, DestinationCardDealTurn(Game_last_turn_started(g),
                                                         g.turn_state.player))
                [] OTHER -> Raised(g)
         [] t = "PlayerTrainCardDrawMidTurn" ->
              IF a = "TrainCardPickAction"
              THEN Game_train_pick(g, action, TRUE) ELSE Raised(g)
         [] t = "PlayerDestinationCardDrawMidTurn" ->
              IF a = "DestinationCardSelectionAction"
              THEN Game_selection(g, action, FALSE, returned) ELSE Raised(g)
         [] t = "DestinationCardDealTurn" ->
              IF a = "DestinationCardDealAction"
              THEN Recorded([g EXCEPT
                               !.player_hands[g.turn_state.to_player]
                                   .unselected_destination_cards = action.cards],
                            PlayerDestinationCardDrawMidTurn(
                                g.turn_state.last_turn_started,
                                g.turn_state.to_player))
              ELSE Raised(g)
         [] t = "TrainCardDealTurn" ->
              IF a = "TrainCardDealAction"
              THEN Game_train_deal(g, action) ELSE Raised(g)
         [] t = "RevealInitialDestinationCardChoicesTurn" ->
              IF a = "RevealDestinationCardSelectionsAction"
              THEN Recorded(g, make_or_end(FALSE, players[1])) ELSE Raised(g)
         [] t = "GameOverTurn" ->
              IF a = "PassAction" THEN Recorded(g, GameOverTurn) ELSE Raised(g)
         [] t = "InitialTurn" ->
              IF a = "InitialDealAction"
              THEN Game_initial_deal(g, action) ELSE Raised(g)
         [] t = "RevealFinalDestinationCardsTurn" ->
              IF a = "RevealFinalDestinationCardsAction"
              THEN Recorded(g, GameOverTurn) ELSE Raised(g)
         [] OTHER -> Raised(g)

(***************************************************************************)
(* SimulatedGameActor.  Both piles are sequences, the last element is the  *)
(* top of the pile.                                                        *)
(***************************************************************************)
\* Every order random.shuffle can leave the given cards in.
RECURSIVE Arrangements(_)
Arrangements(cards) ==
    IF \A k \in DOMAIN cards : cards[k] <= 0 THEN {<< >>}
    ELSE UNION {{Append(rest, card) :
                    rest \in Arrangements([cards EXCEPT ![card] = @ - 1])}
                : card \in {k \in DOMAIN cards : cards[k] > 0}}

SimulatedGameActor_make(train_card_pile, destination_card_pile) ==
    [turn_state |-> InitialTurn,
     player_hands |-> [p \in PlayerSet |-> PlayerHand_make],
     face_up_train_cards |-> EmptyTrainCards,
     discarded_train_cards |-> EmptyTrainCards,
     built_routes |-> [r \in {} |-> NoPlayer],
     destination_card_pile |-> destination_card_pile,
     train_card_pile |-> train_card_pile]

\* The loop of _deal_train_cards: the set of <<cards dealt, pile afterwards>>
\* (more than one only when the discards are reshuffled into the pile).
RECURSIVE Sim_deal_train_cards(_, _, _, _)
Sim_deal_train_cards(pile, discarded, count, cards) ==
    IF count = 0 THEN {[cards |-> cards, pile |-> pile]}
    ELSE IF Len(pile) = 0 /\ len(discarded) = 0
    THEN {[cards |-> cards, pile |-> pile]}
    ELSE UNION {Sim_deal_train_cards(
                    SubSeq(shuffled, 1, Len(shuffled) - 1), discarded,
                    count - 1, incrementing(cards, shuffled[Len(shuffled)], 1))
                : shuffled \in IF Len(pile) = 0 THEN Arrangements(discarded)
                               ELSE {pile}}

Sim_deal_destination_cards(pile, count) ==
    LET n == Min(count, Len(pile))
    IN [cards |-> {pile[i] : i \in (Len(pile) - n + 1)..Len(pile)},
        pile |-> SubSeq(pile, 1, Len(pile) - n)]

\* InitialDealAction: train cards to the players in order, then destination
\* cards to the players in order, then the face-up cards.
Sim_initial_deals(g) ==
    LET d1 == Sim_deal_destination_cards(g.destination_card_pile,
                                         starting_destination_cards_max)
        d2 == Sim_deal_destination_cards(d1.pile, starting_destination_cards_max)
        deal(pile, count) ==
            Sim_deal_train_cards(pile, g.discarded_train_cards, count,
                                 EmptyTrainCards)
        result(t1, t2, f) ==
            [action |-> InitialDealAction(
                            [p \in PlayerSet |->
                                IF p = players[1] THEN t1.cards ELSE t2.cards],
                            [p \in PlayerSet |->
                                IF p = players[1] THEN d1.cards ELSE d2.cards],
                            f.cards),
             actor |-> [g EXCEPT !.train_card_pile = f.pile,
                                 !.destination_card_pile = d2.pile]]
    IN UNION {UNION {{result(t1, t2, f) :
                         f \in deal(t2.pile, face_up_train_cards)}
                     : t2 \in deal(t1.pile, starting_train_cards_count)}
              : t1 \in deal(g.train_card_pile, starting_train_cards_count)}

\* SimulatedGameActor.get_action: the set of <<action, actor afterwards>>
\* (dealing pops the piles when the action is produced).
Sim_get_action(g) ==
    LET t == g.turn_state.type
    IN CASE t = "TrainCardDealTurn" ->
              {[action |-> TrainCardDealAction(d.cards),
                actor |-> [g EXCEPT !.train_card_pile = d.pile]] :
                 d \in Sim_deal_train_cards(g.train_card_pile,
                                            g.discarded_train_cards,
                                            g.turn_state.count, EmptyTrainCards)}
         [] t = "DestinationCardDealTurn" ->
              LET d == Sim_deal_destination_cards(g.destination_card_pile,
                                                  dealt_destination_cards_max)
              IN {[action |-> DestinationCardDealAction(d.cards),
                   actor |-> [g EXCEPT !.destination_card_pile = d.pile]]}
         [] t = "RevealInitialDestinationCardChoicesTurn" ->
              {[action |-> RevealDestinationCardSelectionsAction(
                               [p \in PlayerSet |->
                                   Cardinality(g.player_hands[p].destination_cards)]),
                actor |-> g]}
         [] t = "InitialTurn" -> Sim_initial_deals(g)
         [] t = "RevealFinalDestinationCardsTurn" ->
              {[action |-> RevealFinalDestinationCardsAction(
                               [p \in PlayerSet |->
                                   g.player_hands[p].destination_cards]),
                actor |-> g]}
         [] OTHER -> {}

(***************************************************************************)
(* State: the game from the perspective of one player.  The clusters of    *)
(* a new State are empty and a build connects the two cities of the route. *)
(***************************************************************************)
NoReveal == [p \in {} |-> {}]

ObservedHandState_make ==
    [known_destination_cards |-> {}, destination_cards_count |-> 0,
     known_unselected_destination_cards |-> {},
     unselected_destination_cards_count |-> 0,
     known_train_cards |-> EmptyTrainCards, train_cards_count |-> 0,
     remaining_trains |-> starting_train_count,
     known_points_so_far |-> starting_score,
     known_complete_destination_cards |-> {},
     known_incomplete_destination_cards |-> {}]

\* The State a caller builds itself, with the fields State.make means to
\* give it and clusters made as KnownState.make makes them.
State_new(player) ==
    [player |-> player,
     hand |-> KnownHandState_make,
     opponent_hands |-> [p \in PlayerSet \ {player} |-> ObservedHandState_make],
     discarded_train_cards |-> EmptyTrainCards,
     face_up_train_cards |-> EmptyTrainCards,
     train_card_pile_distribution |-> box_train_cards,
     destination_card_pile_distribution |-> DestinationCards,
     destination_card_pile_size |-> Cardinality(DestinationCards),
     built_routes |-> [r \in {} |-> NoPlayer],
     built_clusters |-> [p \in PlayerSet |-> {}],
     turn_state |-> InitialTurn,
     revealed_destination_cards |-> NoReveal]

\* A call that Python rejects for its arguments, before the callee runs.
TypeError == [error |-> "TypeError"]

\* State.make: the built_clusters are made by Clusters() with neither of the
\* two arguments Clusters.__init__ requires, so that make raises before a
\* State exists.
State_make(player) == TypeError

State_perform_train_draw(s, action, last_turn_started, second_draw) ==
    LET player == s.turn_state.player
    IN IF action.draw_known
       THEN LET next_turn_state ==
                    TrainCardDealTurn(1, NoPlayer,
                        IF second_draw \/ action.selected_card_if_known = Wild
                        THEN make_or_end(last_turn_started, next_player_map(player))
                        ELSE PlayerTrainCardDrawMidTurn(last_turn_started, player))
                face_up == incrementing(s.face_up_train_cards,
                                        action.selected_card_if_known, -1)
            IN IF player = s.player
               THEN [s EXCEPT
                       !.turn_state = next_turn_state,
                       !.hand.train_cards =
                           incrementing(@, action.selected_card_if_known, 1),
                       !.face_up_train_cards = face_up]
               ELSE [s EXCEPT
                       !.turn_state = next_turn_state,
                       !.opponent_hands[player].known_train_cards =
                           incrementing(@, action.selected_card_if_known, 1),
                       !.face_up_train_cards = face_up]
       ELSE [s EXCEPT
               !.turn_state = TrainCardDealTurn(1, player,
                   IF second_draw
                   THEN make_or_end(last_turn_started, next_player_map(player))
                   ELSE PlayerTrainCardDrawMidTurn(last_turn_started, player))]

State_initial_choice(s, action) ==
    LET player == s.turn_state.player
        next_player == next_player_map(player)
        next_turn == IF next_player = players[1]
                     THEN RevealInitialDestinationCardChoicesTurn
                     ELSE PlayerInitialDestinationCardChoiceTurn(next_player)
    IN IF player = s.player
       THEN [s EXCEPT
               !.turn_state = next_turn,
               !.hand.unselected_destination_cards = {},
               !.hand.destination_cards = action.selected_cards,
               !.hand.incomplete_destination_cards = action.selected_cards,
               !.destination_card_pile_distribution =
                   @ \cup (s.hand.unselected_destination_cards
                             \ action.selected_cards),
               !.destination_card_pile_size =
                   @ + Cardinality(s.hand.unselected_destination_cards)
                     - Cardinality(action.selected_cards)]
       ELSE [s EXCEPT !.turn_state = next_turn]

State_last_turn_started(s) ==
    LET player == s.turn_state.player
        remaining_trains == IF player = s.player THEN s.hand.remaining_trains
                            ELSE s.opponent_hands[player].remaining_trains
    IN s.turn_state.last_turn_started \/ remaining_trains <= trains_to_end

\* The BuildAction branch of State.next_state: self.built_clusters[player]
\* .connect(action.route.cities) hands the pair of cities over as one
\* argument to Clusters.connect(a, b), which raises before anything of the
\* branch is computed.
State_build(s, action) == TypeError

State_destination_selection(s, action) ==
    LET player == s.turn_state.player
        next_turn_state == make_or_end(s.turn_state.last_turn_started,
                                       next_player_map(player))
    IN IF player = s.player
       THEN [s EXCEPT
               !.hand.unselected_destination_cards = {},
               !.hand.destination_cards = @ \cup action.selected_cards,
               !.hand.incomplete_destination_cards = @ \cup action.selected_cards,
               !.turn_state = next_turn_state,
               !.destination_card_pile_distribution =
                   @ \cup (s.hand.unselected_destination_cards
                             \ action.selected_cards),
               !.destination_card_pile_size =
                   @ + Cardinality(s.hand.unselected_destination_cards)
                     - Cardinality(action.selected_cards)]
       ELSE [s EXCEPT
               !.opponent_hands[player].unselected_destination_cards_count = 0,
               !.opponent_hands[player].destination_cards_count =
                   @ + Cardinality(action.selected_cards),
               !.turn_state = next_turn_state,
               !.destination_card_pile_size =
                   @ + s.opponent_hands[player].unselected_destination_cards_count
                     - Cardinality(action.selected_cards)]

State_destination_deal(s, action) ==
    LET to_player == s.turn_state.to_player
        next_turn_state ==
            PlayerDestinationCardDrawMidTurn(s.turn_state.last_turn_started,
                                             to_player)
    IN IF to_player = s.player
       THEN [s EXCEPT
               !.turn_state = next_turn_state,
               !.hand.unselected_destination_cards = action.cards,
               !.destination_card_pile_distribution = @ \ action.cards,
               !.destination_card_pile_size = @ - Cardinality(action.cards)]
       ELSE [s EXCEPT
               !.turn_state = next_turn_state,
               !.opponent_hands[to_player].unselected_destination_cards_count =
                   Cardinality(action.cards),
               !.destination_card_pile_size = @ - Cardinality(action.cards)]

State_train_deal(s, action) ==
    LET to_player == s.turn_state.to_player
    IN IF to_player = NoPlayer
       THEN LET new_face_up_cards ==
                    merge_train_cards(s.face_up_train_cards, action.cards)
            IN IF Get(new_face_up_cards, Wild) >= wildcards_to_clear
               THEN [s EXCEPT
                       !.face_up_train_cards = EmptyTrainCards,
                       !.turn_state =
                           TrainCardDealTurn(face_up_train_cards, NoPlayer,
                                             s.turn_state.next_turn_state)]
               ELSE [s EXCEPT
                       !.turn_state = Unbrief(s.turn_state.next_turn_state),
                       !.face_up_train_cards = new_face_up_cards]
       ELSE IF to_player = s.player
       THEN [s EXCEPT
               !.turn_state = Unbrief(s.turn_state.next_turn_state),
               !.hand.train_cards = merge_train_cards(@, action.cards)]
       ELSE [s EXCEPT
               !.turn_state = Unbrief(s.turn_state.next_turn_state),
               !.opponent_hands[to_player].train_cards_count =
                   @ + total(action.cards)]

State_reveal_initial(s, action) ==
    [s EXCEPT
       !.turn_state = make_or_end(FALSE, players[1]),
       !.opponent_hands =
           [p \in DOMAIN s.opponent_hands |->
               [s.opponent_hands[p] EXCEPT
                  !.unselected_destination_cards_count = 0,
                  !.destination_cards_count = action.kept_destination_cards[p]]]]

RECURSIVE SumCardinality(_, _)
SumCardinality(f, ps) ==
    IF ps = {} THEN 0
    ELSE LET p == CHOOSE p \in ps : TRUE
         IN Cardinality(f[p]) + SumCardinality(f, ps \ {p})

State_initial_deal(s, action) ==
    [s EXCEPT
       !.hand.unselected_destination_cards = action.destination_cards[s.player],
       !.hand.train_cards = action.train_cards[s.player],
       !.opponent_hands =
           [p \in DOMAIN s.opponent_hands |->
               [s.opponent_hands[p] EXCEPT
                  !.unselected_destination_cards_count =
                      Cardinality(action.destination_cards[p]),
                  !.train_cards_count = len(action.train_cards[p])]],
       !.destination_card_pile_distribution =
           @ \ action.destination_cards[s.player],
       !.destination_card_pile_size =
           @ - SumCardinality(action.destination_cards, PlayerSet),
       !.train_card_pile_distribution =
           subtract_train_cards(@, action.train_cards[s.player])[1],
       !.turn_state = PlayerInitialDestinationCardChoiceTurn(players[1]),
       !.face_up_train_cards =
           merge_train_cards(s.face_up_train_cards, action.face_up_train_cards)]

State_next_state(s, action) ==
    LET t == s.turn_state.type
        a == action.type
    IN CASE t = "PlayerInitialDestinationCardChoiceTurn" ->
              IF a = "DestinationCardSelectionAction"
              THEN State_initial_choice(s, action) ELSE UnexpectedAction
         [] t = "PlayerStartTurn" ->
              CASE a = "PassAction" ->
                     [s EXCEPT !.turn_state =
                         make_or_end(State_last_turn_started(s),
                                     next_player_map(s.turn_state.player))]
                [] a = "BuildAction" -> State_build(s, action)
                [] a = "TrainCardPickAction" ->
                     State_perform_train_draw(s, action,
                                              State_last_turn_started(s), FALSE)
                [] a = "DestinationCardPickAction" ->
                     [s EXCEPT !.turn_state =
                         DestinationCardDealTurn(State_last_turn_started(s),
                                                 s.turn_state.player)]
                [] OTHER -> UnexpectedAction
         [] t = "PlayerTrainCardDrawMidTurn" ->
              IF a = "TrainCardPickAction"
              THEN State_perform_train_draw(s, action,
                                            s.turn_state.last_turn_started, TRUE)
              ELSE UnexpectedAction
         [] t = "PlayerDestinationCardDrawMidTurn" ->
              IF a = "DestinationCardSelectionAction"
              THEN State_destination_selection(s, action) ELSE UnexpectedAction
         [] t = "DestinationCardDealTurn" ->
              IF a = "DestinationCardDealAction"
              THEN State_destination_deal(s, action) ELSE UnexpectedAction
         [] t = "TrainCardDealTurn" ->
              IF a = "TrainCardDealAction"
              THEN State_train_deal(s, action) ELSE UnexpectedAction
         [] t = "RevealInitialDestinationCardChoicesTurn" ->
              IF a = "RevealDestinationCardSelectionsAction"
              THEN State_reveal_initial(s, action) ELSE UnexpectedAction
         [] t = "GameOverTurn" ->
              IF a = "PassAction" THEN s ELSE UnexpectedAction
         [] t = "InitialTurn" ->
              IF a = "InitialDealAction"
              THEN State_initial_deal(s, action) ELSE UnexpectedAction
         [] t = "RevealFinalDestinationCardsTurn" ->
              IF a = "RevealFinalDestinationCardsAction"
              THEN [s EXCEPT !.revealed_destination_cards =
                                 action.destination_cards]
              ELSE UnexpectedAction
         [] OTHER -> UnexpectedAction

(***************************************************************************)
(* The running systems.                                                    *)
(*                                                                         *)
(* play_game (SpecPlayGame): the SimulatedGameActor (game) and the player  *)
(* actors PlayerActor.make gives, each holding the KnownState ks and its   *)
(* flag should_print_state.  In SpecMcts one of the player actors is a     *)
(* MctsActor (its state ks, its tree and counters tree) and st holds the   *)
(* KnownState of every other player actor.                                 *)
(*                                                                         *)
(* The engine driven call by call (Spec, SpecShortCardLate, SpecState,     *)
(* SpecLastTurn, SpecWildsApart):                                          *)
(* get_action, validate_action and observe_action of the game actor and    *)
(* next_state of a KnownState (ks) and of one State per player (st) kept   *)
(* beside it.  No player actor is involved.                                *)
(*                                                                         *)
(* act is the last action appended to the history, steps the length of the *)
(* history and outcome what became of the last proposed action.            *)
(***************************************************************************)
VARIABLES game, st, ks, should_print_state, act, outcome, steps, card_call, cluster_obj, node, tree

vars == <<game, st, ks, should_print_state, act, outcome, steps, card_call, cluster_obj, node, tree>>

\* The value of a variable that the specification at hand does not use.
Unused == "unused"

\* The variables of the game loop, and those of the library calls and of the
\* search actors, which the game loop leaves alone.
loop_vars == <<game, st, ks, should_print_state, act, outcome, steps>>

LoopUnused ==
    /\ game = Unused /\ st = Unused /\ ks = Unused /\ should_print_state = Unused
    /\ act = Unused /\ outcome = Unused /\ steps = Unused

\* Every pile random.shuffle can leave the train cards of the box in (last
\* is top).
AllTrainShuffles == Arrangements(box_train_cards)

RECURSIVE RoundRobin(_, _)
RoundRobin(cards, i) ==
    IF \A k \in DOMAIN cards : cards[k] = 0 THEN << >>
    ELSE LET kind == KindOrder[(i % Len(KindOrder)) + 1]
         IN IF cards[kind] = 0 THEN RoundRobin(cards, i + 1)
            ELSE Append(RoundRobin([cards EXCEPT ![kind] = @ - 1], i + 1), kind)

\* The wildcards lie right under the players' first cards, so that the
\* initial face-up cards are wildcards.
WildsUp ==
    [j \in 1..(NumRed - 1) |-> "red"] \o [j \in 1..(NumBlue - 1) |-> "blue"]
      \o [j \in 1..NumWild |-> Wild] \o <<"blue", "red">>

\* One wildcard is face up after the initial deal and another lies under
\* the top card of the pile, so that a later deal brings the face-up
\* wildcards to box.wildcards_to_clear.
WildUnder ==
    [j \in 1..(NumWild - 1) |-> Wild] \o [j \in 1..(NumBlue - 1) |-> "blue"]
      \o [j \in 1..(NumRed - 1) |-> "red"] \o <<Wild, "blue", "red">>

\* The destination pile whose first deal in the middle of the game holds the
\* card of the cities C and D, which one route connects: a player can have
\* connected the cities of a card before it keeps the card.
ShortCardLate == <<"d4", "d1", "d3", "d2", "d5", "d6">>

\* The shuffles the engine is driven from: the first MaxTrainShuffles of
\* TrainPiles and the first MaxDestinationShuffles of DestinationPiles.
\* play_game is run from every train pile and the same destination piles.
TrainPiles ==
    <<RoundRobin(box_train_cards, 0), WildsUp, WildUnder,
      Reverse(RoundRobin(box_train_cards, 0))>>

DestinationPiles == <<<<"d1", "d2", "d3", "d4", "d5", "d6">>, ShortCardLate>>

TrainShuffles ==
    {TrainPiles[i] : i \in 1..Min(MaxTrainShuffles, Len(TrainPiles))}

DestinationShuffles ==
    {DestinationPiles[i] : i \in 1..Min(MaxDestinationShuffles, Len(DestinationPiles))}

NoAction == [type |-> "NoAction"]

\* All sub-collections of a hand with positive counts.
SubCards(cards) ==
    UNION {{tc \in [keys -> 1..total(cards)] : \A k \in keys : tc[k] <= cards[k]}
           : keys \in SUBSET {k \in DOMAIN cards : cards[k] > 0}}

\* UserActor.parse_action of a build command for the route, --color color
\* (Wild: no color given, or the wildcard) and --wildcards wildcards.  The
\* cards are the dict display {color: length - wildcards, None: wildcards},
\* whose second entry replaces the first when the color is None.  A gray
\* route without a color and with fewer wildcards than its length is a
\* ParserException: the user is asked again, no action is returned.
parse_build(route, color, wildcards) ==
    LET length == RouteTable[route].length
    IN IF RouteTable[route].color = Gray /\ color = Wild /\ wildcards < length
       THEN {}
       ELSE {BuildAction(route,
                 IF color = Wild THEN [k \in {Wild} |-> wildcards]
                 ELSE [k \in {color, Wild} |->
                          IF k = color THEN length - wildcards ELSE wildcards])}

\* The actions a player actor may return on its turn: what UserActor parses
\* from a typed line (--wildcards is any integer, here from MaxMistyped below
\* 0 to MaxMistyped above the length of the route), and the builds a scripted
\* actor pays with cards of its hand.
Proposals(g) ==
    LET hand == g.player_hands[g.turn_state.player]
    IN {PassAction, DestinationCardPickAction, TrainCardPickAction(FALSE, Wild)}
       \cup {TrainCardPickAction(TRUE, k) : k \in Kinds}
       \cup UNION {UNION {parse_build(r, color, wildcards) :
                             color \in Kinds,
                             wildcards \in (0 - MaxMistyped)..(RouteTable[r].length + MaxMistyped)}
                   : r \in Routes}
       \cup {BuildAction(r, tc) : r \in Routes, tc \in SubCards(hand.train_cards)}
       \cup {DestinationCardSelectionAction(sel) :
                sel \in SUBSET hand.unselected_destination_cards}

\* PlayerActor.observe_action of an actor holding the KnownState: the state
\* becomes next_state(action), or next_state raises and the state stays.
Known_observe(s, a) == KnownState_next_state(s, a)

\* PlayerActor.validate_action.
Player_validate_action(s, a) == None

\* Mutant: the game actor observes the action whatever the validation said.
play_game_iteration_unvalidated(g, state, action, returned) ==
    LET errors == {Player_validate_action(state, action) : p \in PlayerSet}
                    \cup {validate_action(g, action)}
        observed == Known_observe(state, action)
    IN IF errors # {None}
       THEN [game |-> record_action(g, action, returned).actor, state |-> state,
             outcome |-> "rejected"]
       ELSE IF IsError(observed)
       THEN [game |-> g, state |-> state, outcome |-> "raised"]
       ELSE [game |-> record_action(g, action, returned).actor,
             state |-> observed, outcome |-> "observed"]
\* The body of the loop of play_game for a proposed action: the first error
\* of the actors (players first, then the game) rejects the action, else the
\* action is appended to the history and the actors observe it, the players
\* first.  A player whose next_state raises ends play_game before the game
\* actor has observed the action.  state: the KnownState that
\* PlayerActor.make gives every player actor; returned: the cards a
\* selection returns, as the game actor iterates them.
play_game_iteration(g, state, action, returned) ==
    LET errors == {Player_validate_action(state, action) : p \in PlayerSet}
                    \cup {validate_action(g, action)}
        observed == Known_observe(state, action)
    IN IF errors # {None}
       THEN [game |-> g, state |-> state, outcome |-> "rejected"]
       ELSE IF IsError(observed)
       THEN [game |-> g, state |-> state, outcome |-> "raised"]
       ELSE [game |-> record_action(g, action, returned).actor,
             state |-> observed, outcome |-> "observed"]

\* SimulatedGameActor.make(box) and PlayerActor.make(box, player) for every
\* player, print_state given or left at its default.  The train pile is any
\* shuffle, the destination pile one of DestinationShuffles.
InitPlayGame ==
    /\ \E tpile \in AllTrainShuffles, dpile \in DestinationShuffles :
          game = SimulatedGameActor_make(tpile, dpile)
    /\ st = Unused
    /\ ks = KnownState_make
    /\ should_print_state \in [PlayerSet -> BOOLEAN]
    /\ act = NoAction
    /\ outcome = "init"
    /\ steps = 0
    /\ card_call = Unused /\ cluster_obj = Unused /\ node = Unused /\ tree = Unused

\* while not game.is_over, and no exception has left the loop.
Running == outcome # "raised" /\ game.turn_state.type # "GameOverTurn"

Iterate(g, action) ==
    \E returned \in ReturnedCards(g, action) :
    LET r == play_game_iteration(g, ks, action, returned)
    IN /\ game' = r.game
       /\ ks' = r.state
       /\ outcome' = r.outcome
       /\ IF r.outcome = "rejected"
          THEN UNCHANGED <<act, steps>>
          ELSE /\ act' = action
               /\ steps' = steps + 1

\* One iteration of the loop on a game turn.
PlayGameStep ==
    /\ Running
    /\ game.turn_state.player = NoPlayer
    /\ \E d \in Sim_get_action(game) : Iterate(d.actor, d.action)
    /\ UNCHANGED <<st, should_print_state, card_call, cluster_obj, node, tree>>

\* PlayerActor.get_action of an actor that prints the state: print_state
\* reads known_train_cards of the other players' hands, which the hands of a
\* KnownState do not have, and the AttributeError leaves play_game.
PlayGamePrintState ==
    /\ Running
    /\ game.turn_state.player # NoPlayer
    /\ should_print_state[game.turn_state.player]
    /\ outcome' = "raised"
    /\ UNCHANGED <<game, st, ks, should_print_state, act, steps>>
    /\ UNCHANGED <<card_call, cluster_obj, node, tree>>

\* One iteration of the loop on a player's turn, the action being accepted.
PlayGamePlayerStep ==
    /\ Running
    /\ game.turn_state.player # NoPlayer
    /\ ~should_print_state[game.turn_state.player]
    /\ \E a \in Proposals(game) \cup LegalActions(ks) :
          /\ validate_action(game, a) = None
          /\ Iterate(game, a)
    /\ UNCHANGED <<st, should_print_state, card_call, cluster_obj, node, tree>>

\* One iteration of the loop on a player's turn, the action being rejected.
PlayGamePlayerRejected ==
    /\ Running
    /\ game.turn_state.player # NoPlayer
    /\ ~should_print_state[game.turn_state.player]
    /\ \E r \in UNION {{play_game_iteration(game, ks, a, returned) :
                            returned \in ReturnedCards(game, a)} :
                        a \in {b \in Proposals(game) \cup LegalActions(ks) :
                                  validate_action(game, b) # None}} :
          /\ game' = r.game
          /\ ks' = r.state
          /\ outcome' = r.outcome
    /\ UNCHANGED <<act, steps>>
    /\ UNCHANGED <<st, should_print_state, card_call, cluster_obj, node, tree>>

NextPlayGame ==
    PlayGameStep \/ PlayGamePrintState \/ PlayGamePlayerStep
      \/ PlayGamePlayerRejected

SpecPlayGame == InitPlayGame /\ [][NextPlayGame]_vars

\* ------------------------------------------------------------------------
\* The engine driven call by call.

\* What the driver does with an action the game actor accepted:
\* GameActor.observe_action, and next_state of the KnownState kept beside the
\* game.  The reveal of the initial selections is handed to the game actor
\* alone: the KnownState has no phase for it, it is in
\* PlayerStartTurn(players[0]) since the last selection.
observe_action_and_next_state(g, state, action, returned) ==
    [game |-> record_action(g, action, returned).actor,
     state |-> IF action.type = "RevealDestinationCardSelectionsAction"
               THEN state
               ELSE KnownState_next_state(state, action)]

Init ==
    /\ game \in {SimulatedGameActor_make(tpile, dpile) :
                     tpile \in TrainShuffles, dpile \in DestinationShuffles}
    /\ st = Unused
    /\ ks = KnownState_make
    /\ should_print_state = Unused
    /\ act = NoAction
    /\ outcome = "init"
    /\ steps = 0
    /\ card_call = Unused /\ cluster_obj = Unused /\ node = Unused /\ tree = Unused

Drive(g, action) ==
    \E returned \in ReturnedCards(g, action) :
    LET r == observe_action_and_next_state(g, ks, action, returned)
    IN /\ game' = r.game
       /\ ks' = r.state
       /\ outcome' = "observed"
       /\ act' = action
       /\ steps' = steps + 1

\* The action the game actor gives on its turn, while fewer than n actions
\* have been observed.
GameStepWithin(n) ==
    /\ steps < n
    /\ game.turn_state.player = NoPlayer
    /\ game.turn_state.type # "GameOverTurn"
    /\ \E d \in Sim_get_action(game) : Drive(d.actor, d.action)
    /\ UNCHANGED <<st, should_print_state, card_call, cluster_obj, node, tree>>

\* An action of the player to move that the game actor's validate_action
\* accepts, while fewer than n actions have been observed.
PlayerStepWithin(n) ==
    /\ steps < n
    /\ game.turn_state.player # NoPlayer
    /\ \E a \in Proposals(game) \cup LegalActions(ks) :
          /\ validate_action(game, a) = None
          /\ Drive(game, a)
    /\ UNCHANGED <<st, should_print_state, card_call, cluster_obj, node, tree>>

GameStep == GameStepWithin(MaxSteps)

PlayerStep == PlayerStepWithin(MaxSteps)

Next == GameStep \/ PlayerStep

Spec == Init /\ [][Next]_vars

\* ------------------------------------------------------------------------
\* State.next_state along the actions of a game.  State.make raises, so the
\* States are built by their constructor, one per player before the initial
\* deal, with the arguments State.make writes.  A State whose next_state
\* raised is not asked again.
State_observe(s, a) == IF IsError(s) THEN s ELSE State_next_state(s, a)

InitState ==
    /\ game \in {SimulatedGameActor_make(tpile, dpile) :
                     tpile \in TrainShuffles, dpile \in DestinationShuffles}
    /\ st = [p \in PlayerSet |-> State_new(p)]
    /\ ks = KnownState_make
    /\ should_print_state = Unused
    /\ act = NoAction
    /\ outcome = "init"
    /\ steps = 0
    /\ card_call = Unused /\ cluster_obj = Unused /\ node = Unused /\ tree = Unused

\* An action of the game, applied to every State, while fewer than n actions
\* have been observed.
StateGameStepWithin(n) ==
    /\ steps < n
    /\ game.turn_state.player = NoPlayer
    /\ game.turn_state.type # "GameOverTurn"
    /\ \E d \in Sim_get_action(game) :
          /\ Drive(d.actor, d.action)
          /\ st' = [p \in PlayerSet |-> State_observe(st[p], d.action)]
    /\ UNCHANGED <<should_print_state, card_call, cluster_obj, node, tree>>

\* An action of a player that the game accepts, applied to every State,
\* while fewer than n actions have been observed.
StatePlayerStepWithin(n) ==
    /\ steps < n
    /\ game.turn_state.player # NoPlayer
    /\ \E a \in Proposals(game) \cup LegalActions(ks) :
          /\ validate_action(game, a) = None
          /\ Drive(game, a)
          /\ st' = [p \in PlayerSet |-> State_observe(st[p], a)]
    /\ UNCHANGED <<should_print_state, card_call, cluster_obj, node, tree>>

StateGameStep == StateGameStepWithin(MaxStateSteps)

StatePlayerStep == StatePlayerStepWithin(MaxStateSteps)

NextState == StateGameStep \/ StatePlayerStep

SpecState == InitState /\ [][NextState]_vars

\* ------------------------------------------------------------------------
\* The same, in the box whose starting_train_count is its trains_to_end
\* (Box.small with starting_train_count = 1): the first turn of the first
\* player is the last turn of the game, and the final reveal follows it
\* without any route built.
AtThreshold(hand) == [hand EXCEPT !.remaining_trains = trains_to_end]

InitLastTurn ==
    /\ game \in {[SimulatedGameActor_make(tpile, dpile) EXCEPT
                      !.player_hands = [p \in PlayerSet |-> AtThreshold(@[p])]] :
                     tpile \in TrainShuffles, dpile \in DestinationShuffles}
    /\ st = [p \in PlayerSet |->
               [State_new(p) EXCEPT
                  !.hand = AtThreshold(@),
                  !.opponent_hands = [q \in PlayerSet \ {p} |-> AtThreshold(@[q])]]]
    /\ ks = [KnownState_make EXCEPT
               !.hands = [p \in PlayerSet |-> AtThreshold(@[p])]]
    /\ should_print_state = Unused
    /\ act = NoAction
    /\ outcome = "init"
    /\ steps = 0
    /\ card_call = Unused /\ cluster_obj = Unused /\ node = Unused /\ tree = Unused

LastTurnGameStep == StateGameStepWithin(MaxLastTurnSteps)

LastTurnPlayerStep == StatePlayerStepWithin(MaxLastTurnSteps)

NextLastTurn == LastTurnGameStep \/ LastTurnPlayerStep

SpecLastTurn == InitLastTurn /\ [][NextLastTurn]_vars

(***************************************************************************)
(* Claims.                                                                 *)
(***************************************************************************)
RECURSIVE KindInHands(_, _, _)
KindInHands(hands, k, ps) ==
    IF ps = {} THEN 0
    ELSE LET p == CHOOSE p \in ps : TRUE
         IN Get(hands[p].train_cards, k) + KindInHands(hands, k, ps \ {p})

KnownKindCount(s, k) ==
    KindInHands(s.hands, k, PlayerSet) + Get(s.face_up_train_cards, k)
      + Get(s.discarded_train_cards, k) + Get(s.train_card_pile_distribution, k)

\* C1: in every state reached from KnownState.make by next_state, the cards
\* of each kind in the hands, face up, discarded and in
\* train_card_pile_distribution add up to box.train_cards of that kind.
C1_TrainCardsConserved ==
    \A k \in Kinds : KnownKindCount(ks, k) = box_train_cards[k]

\* The GameActor holding the position of a KnownState.
GameActorOf(s) ==
    [turn_state |-> s.turn_state,
     player_hands |->
         [p \in PlayerSet |->
             [destination_cards |-> s.hands[p].destination_cards,
              train_cards |-> s.hands[p].train_cards,
              remaining_trains |-> s.hands[p].remaining_trains,
              unselected_destination_cards |->
                  s.hands[p].unselected_destination_cards]],
     face_up_train_cards |-> s.face_up_train_cards,
     discarded_train_cards |-> s.discarded_train_cards,
     built_routes |-> s.built_routes]

InPlayerPhase(s) == s.turn_state.type \in PlayerTurnTypes

\* C2: in every player phase, every action yielded by get_legal_actions is
\* accepted by the validate_action of the GameActor holding the same position.
C2_LegalActionsAccepted ==
    InPlayerPhase(ks) =>
        \A a \in LegalActions(ks) :
            validate_action(GameActorOf(ks), a) = None

\* Two actions that differ at most in train-card entries of count zero.
SameAction(a, b) ==
    IF a.type = "BuildAction" /\ b.type = "BuildAction"
    THEN /\ a.route = b.route
         /\ \A k \in Kinds : Get(a.train_cards, k) = Get(b.train_cards, k)
    ELSE a = b

\* C3: in every player phase, every action validate_action accepts for the
\* position (every accepted BuildAction, whatever cards it pays) is among
\* the actions enumerated by get_legal_actions.
C3_AcceptedActionsEnumerated ==
    InPlayerPhase(ks) =>
        \A a \in Proposals(GameActorOf(ks)) :
            validate_action(GameActorOf(ks), a) = None
                => \E b \in LegalActions(ks) : SameAction(a, b)

\* The action types each phase handles.
Handled(type) ==
    CASE type = "InitialTurn" -> {"InitialDealAction"}
      [] type \in {"PlayerInitialDestinationCardChoiceTurn",
                   "PlayerDestinationCardDrawMidTurn"} ->
           {"DestinationCardSelectionAction"}
      [] type = "PlayerStartTurn" ->
           {"PassAction", "BuildAction", "TrainCardPickAction",
            "DestinationCardPickAction"}
      [] type = "PlayerTrainCardDrawMidTurn" -> {"TrainCardPickAction"}
      [] type = "DestinationCardDealTurn" -> {"DestinationCardDealAction"}
      [] type = "TrainCardDealTurn" -> {"TrainCardDealAction"}
      [] type = "RevealFinalDestinationCardsTurn" ->
           {"RevealFinalDestinationCardsAction"}
      [] type = "GameOverTurn" -> {"PassAction"}
      [] OTHER -> {}

\* One action of every type.
SampleActions ==
    <<PassAction, DestinationCardPickAction, TrainCardPickAction(FALSE, Wild),
     TrainCardPickAction(TRUE, "red"),
     BuildAction("r1", [k \in {"red"} |-> 1]),
     DestinationCardSelectionAction({"d1"}),
     DestinationCardDealAction({"d1", "d2"}),
     TrainCardDealAction([k \in {"red"} |-> 1]),
     RevealFinalDestinationCardsAction([p \in PlayerSet |-> {}]),
     InitialDealAction([p \in PlayerSet |-> [k \in {"red"} |-> 1]],
                       [p \in PlayerSet |-> {}], EmptyTrainCards)>>

PhasesOfC4 ==
    {"InitialTurn", "PlayerInitialDestinationCardChoiceTurn",
     "PlayerDestinationCardDrawMidTurn", "PlayerStartTurn",
     "PlayerTrainCardDrawMidTurn", "DestinationCardDealTurn",
     "TrainCardDealTurn", "RevealFinalDestinationCardsTurn", "GameOverTurn"}

\* C4: in every phase, an action whose type the phase does not handle makes
\* KnownState.next_state and GameActor._record_action fail with the
\* unexpected-action error: no successor state, no field of the actor changed.
C4_UnexpectedActionFails ==
    \A i \in DOMAIN SampleActions :
      LET a == SampleActions[i] IN
        /\ (ks.turn_state.type \in PhasesOfC4
              /\ a.type \notin Handled(ks.turn_state.type))
             => /\ IsError(KnownState_next_state(ks, a))
                /\ KnownState_next_state(ks, a).error = UnexpectedAction.error
        /\ (game.turn_state.type \in PhasesOfC4
              /\ a.type \notin Handled(game.turn_state.type))
             => \A returned \in ReturnedCards(game, a) :
                   /\ record_action(game, a, returned).raised
                   /\ record_action(game, a, returned).actor = game

\* Both fail on a PassAction proposed for the second train-card draw.
C4_Witness ==
    /\ game.turn_state.type = "PlayerTrainCardDrawMidTurn"
    /\ ks.turn_state.type = "PlayerTrainCardDrawMidTurn"
    /\ record_action(game, PassAction, <<>>).raised
    /\ IsError(KnownState_next_state(ks, PassAction))

\* C5: an iteration of play_game whose proposed action some actor's
\* validate_action rejects changes nothing: the game actor (turn state, hands,
\* face-up cards, discards, built routes, piles) and every player's state are
\* as before, nothing is added to the history, and the same party is to act.
C5_RejectionChangesNothing ==
    [][outcome' = "rejected" =>
          /\ game' = game
          /\ ks' = ks
          /\ steps' = steps
          /\ game'.turn_state.player = game.turn_state.player]_vars

\* A proposal was rejected on a player's turn.
C5_Witness ==
    /\ outcome = "rejected"
    /\ game.turn_state.type = "PlayerInitialDestinationCardChoiceTurn"
    /\ \E a \in Proposals(game) : validate_action(game, a) # None

SameCards(a, b) == \A k \in Kinds : Get(a, k) = Get(b, k)

\* C6: after every observed action the turn state of a player actor (whose
\* state is the KnownState of PlayerActor.make) equals the game actor's, and
\* the state agrees with the game actor on the face-up cards, the discards,
\* the built routes and the player's own hand.
C6_PlayersAgreeWithGame ==
    outcome = "observed" =>
        /\ ks.turn_state = game.turn_state
        /\ SameCards(ks.face_up_train_cards, game.face_up_train_cards)
        /\ SameCards(ks.discarded_train_cards, game.discarded_train_cards)
        /\ ks.built_routes = game.built_routes
        /\ \A p \in PlayerSet :
              /\ SameCards(ks.hands[p].train_cards,
                           game.player_hands[p].train_cards)
              /\ ks.hands[p].destination_cards =
                     game.player_hands[p].destination_cards
              /\ ks.hands[p].unselected_destination_cards =
                     game.player_hands[p].unselected_destination_cards
              /\ ks.hands[p].remaining_trains =
                     game.player_hands[p].remaining_trains

\* C7: once RevealFinalDestinationCardsAction has been applied in
\* RevealFinalDestinationCardsTurn, the GameActor, the KnownState and every
\* player's State that has followed the game are in GameOverTurn.
C7_FinalRevealEndsGame ==
    (outcome = "observed" /\ act.type = "RevealFinalDestinationCardsAction") =>
        /\ game.turn_state.type = "GameOverTurn"
        /\ TurnStateOf(ks).type = "GameOverTurn"
        /\ \A p \in PlayerSet :
              ~IsError(st[p]) => st[p].turn_state.type = "GameOverTurn"

\* An observed build by the player to move that takes the player's remaining
\* trains from above box.trains_to_end down to it or below.
CrossingBuild ==
    /\ game.turn_state.type = "PlayerStartTurn"
    /\ outcome' = "observed"
    /\ steps' = steps + 1
    /\ act'.type = "BuildAction"
    /\ game.player_hands[game.turn_state.player].remaining_trains > trains_to_end
    /\ game'.player_hands[game.turn_state.player].remaining_trains <= trains_to_end

\* C8 as stated: the build that crosses the end-game threshold is taken with
\* last_turn_started = true, so that it leads to what make_or_end gives for
\* a true flag.
C8_FlagTrueOnCrossingBuild ==
    [][CrossingBuild =>
          /\ game'.turn_state =
                 make_or_end(TRUE, next_player_map(game.turn_state.player))
          /\ ks'.turn_state =
                 make_or_end(TRUE, next_player_map(game.turn_state.player))]_vars

\* C8, amended: last_turn_started is computed from the remaining trains the
\* player has before paying.  The build that crosses the threshold is taken
\* with the flag still false and hands the turn to the next player's
\* PlayerStartTurn; a PassAction or BuildAction of a player who starts the
\* turn at or below the threshold is taken with the flag true and leads to
\* RevealFinalDestinationCardsTurn.
C8_FlagFromTrainsBeforePaying ==
    [][(/\ game.turn_state.type = "PlayerStartTurn"
        /\ outcome' = "observed"
        /\ steps' = steps + 1
        /\ act'.type \in {"PassAction", "BuildAction"}) =>
          LET p == game.turn_state.player
              before == game.player_hands[p].remaining_trains
              next ==
                  IF game.turn_state.last_turn_started \/ before <= trains_to_end
                  THEN RevealFinalDestinationCardsTurn
                  ELSE PlayerStartTurn(FALSE, next_player_map(p))
          IN /\ game'.turn_state = next
             /\ ks'.turn_state = next]_vars

\* A build has just crossed the threshold and the next player starts an
\* ordinary turn.
C8_Witness ==
    /\ outcome = "observed"
    /\ act.type = "BuildAction"
    /\ game.turn_state.type = "PlayerStartTurn"
    /\ ~game.turn_state.last_turn_started
    /\ \E p \in PlayerSet :
          /\ game.built_routes[act.route] = p
          /\ game.turn_state.player = next_player_map(p)
          /\ game.player_hands[p].remaining_trains <= trains_to_end
          /\ game.player_hands[p].remaining_trains
               + RouteTable[act.route].length > trains_to_end

\* An observed first TrainCardPickAction of a turn.
FirstPick ==
    /\ game.turn_state.type = "PlayerStartTurn"
    /\ outcome' = "observed"
    /\ steps' = steps + 1
    /\ act'.type = "TrainCardPickAction"

\* The turn state after a first pick of the player to move, given whether
\* the pick ends the turn.
AfterFirstPick(ends) ==
    LET p == game.turn_state.player
        started == game.turn_state.last_turn_started
                     \/ game.player_hands[p].remaining_trains <= trains_to_end
    IN TrainCardDealTurn(
           1, IF act'.draw_known THEN NoPlayer ELSE p,
           IF ends THEN make_or_end(started, next_player_map(p))
           ELSE PlayerTrainCardDrawMidTurn(started, p))

\* C9 as stated: after a first pick the one-card deal leads to the second
\* draw only when a colored face-up card was taken; a face-up wildcard and a
\* blind draw from the deck end the turn.
C9_DeckDrawEndsTurn ==
    [][FirstPick =>
          LET ends == ~act'.draw_known \/ act'.selected_card_if_known = Wild
          IN /\ game'.turn_state = AfterFirstPick(ends)
             /\ ks'.turn_state = AfterFirstPick(ends)]_vars

\* C9, amended: after a first pick the one-card deal leads to
\* PlayerTrainCardDrawMidTurn(p) when a colored face-up card was taken or
\* the card was drawn blind from the deck; only a face-up wildcard leads
\* to the next player's PlayerStartTurn (or the final reveal).
C9_OnlyFaceUpWildcardEndsTurn ==
    [][FirstPick =>
          LET ends == act'.draw_known /\ act'.selected_card_if_known = Wild
          IN /\ game'.turn_state = AfterFirstPick(ends)
             /\ ks'.turn_state = AfterFirstPick(ends)]_vars

\* A first blind draw has been observed: the deal goes to the player, who
\* then draws a second card.
C9_Witness ==
    /\ outcome = "observed"
    /\ act.type = "TrainCardPickAction"
    /\ ~act.draw_known
    /\ game.turn_state.type = "TrainCardDealTurn"
    /\ game.turn_state.to_player \in PlayerSet
    /\ game.turn_state.next_turn_state.type = "PlayerTrainCardDrawMidTurn"
    /\ game.turn_state.next_turn_state.player = game.turn_state.to_player
    /\ ks.turn_state = game.turn_state

\* C10: the initial selections are made in turn order; the selection of the
\* last player leads to the reveal-initial-choices phase, in the KnownState
\* and the GameActor alike, and that phase leads to
\* PlayerStartTurn(first player, last_turn_started = false).
C10_RevealAfterLastSelection ==
    [][(outcome' = "observed" /\ steps' = steps + 1) =>
          /\ game.turn_state.type = "PlayerInitialDestinationCardChoiceTurn" =>
               LET next_player == next_player_map(game.turn_state.player)
                   next == IF next_player = players[1]
                           THEN RevealInitialDestinationCardChoicesTurn
                           ELSE PlayerInitialDestinationCardChoiceTurn(next_player)
               IN /\ game'.turn_state = next
                  /\ ks'.turn_state = next
          /\ game.turn_state.type = "RevealInitialDestinationCardChoicesTurn" =>
               /\ game'.turn_state = PlayerStartTurn(FALSE, players[1])
               /\ ks'.turn_state = PlayerStartTurn(FALSE, players[1])]_vars

\* The places a destination card can be in a KnownState.
DestinationPlaces(s) ==
    <<s.destination_card_pile_distribution>>
      \o [i \in 1..Len(players) |-> s.hands[players[i]].destination_cards]
      \o [i \in 1..Len(players) |->
             s.hands[players[i]].unselected_destination_cards]

\* C11: in every reachable KnownState the destination pile distribution and
\* the players' kept and unselected destination cards are pairwise disjoint,
\* together they are box.destination_cards, and destination_card_pile_size is
\* the number of cards of the pile distribution.
C11_DestinationCardsPartitioned ==
    LET places == DestinationPlaces(ks)
    IN /\ \A i, j \in DOMAIN places : i # j => places[i] \cap places[j] = {}
       /\ UNION {places[i] : i \in DOMAIN places} = DestinationCards
       /\ ks.destination_card_pile_size =
              Cardinality(ks.destination_card_pile_distribution)

\* A player has kept one of the cards dealt during the game and returned
\* the other to the pile.
C11_Witness ==
    /\ outcome = "observed"
    /\ act.type = "DestinationCardSelectionAction"
    /\ ks.turn_state.type = "PlayerStartTurn"
    /\ ks.turn_state.player = players[2]
    /\ Cardinality(ks.hands[players[1]].destination_cards) = 2
    /\ Cardinality(ks.destination_card_pile_distribution) = 3

\* C12: in every reachable state whose phase is not InitialTurn,
\* get_legal_actions yields at least one action, in whatever order the pile
\* is iterated, and raises nothing.
C12_LegalActionsNonEmpty ==
    ks.turn_state.type # "InitialTurn" =>
        \A pile \in PileIterations(ks) :
            \A legal \in {get_legal_actions(ks, pile)} :
                /\ legal.raised = ""
                /\ legal.actions # {}

\* ------------------------------------------------------------------------
\* The train-card functions of util.py applied to arbitrary collections.

\* The collections of at most n cards of each kind; a kind may be missing or
\* be held with count 0, as in the dictionaries the program builds.
TrainCardsUpTo(n) ==
    UNION {[keys -> 0..n] : keys \in SUBSET Kinds}

InitCards ==
    /\ LoopUnused
    /\ cluster_obj = Unused /\ node = Unused /\ tree = Unused
    /\ card_call \in {[pc |-> "input", original |-> x, minus |-> y,
                   result |-> EmptyTrainCards, leftover |-> EmptyTrainCards,
                   merged |-> EmptyTrainCards] :
                     x \in TrainCardsUpTo(MaxCount), y \in TrainCardsUpTo(MaxCount)}

\* result, leftover = subtract_train_cards(original, minus)
SubtractTrainCards ==
    /\ card_call.pc = "input"
    /\ LET r == subtract_train_cards(card_call.original, card_call.minus)
       IN card_call' = [card_call EXCEPT !.pc = "subtracted",
                                 !.result = r[1], !.leftover = r[2]]
    /\ UNCHANGED <<loop_vars, cluster_obj, node, tree>>

\* merged = merge_train_cards(result, minus)
MergeTrainCards ==
    /\ card_call.pc = "subtracted"
    /\ card_call' = [card_call EXCEPT !.pc = "merged",
                      !.merged = merge_train_cards(card_call.result,
                                                   card_call.minus)]
    /\ UNCHANGED <<loop_vars, cluster_obj, node, tree>>

NextCards == SubtractTrainCards \/ MergeTrainCards

SpecCards == InitCards /\ [][NextCards]_vars

\* minus holds at most as many cards of each kind as original.
Within(minus, original) ==
    \A c \in Kinds : Get(minus, c) <= Get(original, c)

SameCounts(x, y) == \A c \in Kinds : Get(x, c) = Get(y, c)

NoZeroCount(x) == \A c \in DOMAIN x : x[c] > 0

\* C20 as stated: whenever minus holds at most as many cards of each kind as
\* original, merging the result of the subtraction with minus gives a
\* collection equal to original, and the leftover holds no cards; in general
\* the result holds max(X[c] - Y[c], 0) and the leftover max(Y[c] - X[c], 0).
C20_RoundTripEqual ==
    card_call.pc = "merged" =>
       /\ Within(card_call.minus, card_call.original) =>
             /\ card_call.merged = card_call.original
             /\ total(card_call.leftover) = 0
       /\ \A c \in Kinds :
             /\ Get(card_call.result, c) =
                    Max(Get(card_call.original, c) - Get(card_call.minus, c), 0)
             /\ Get(card_call.leftover, c) =
                    Max(Get(card_call.minus, c) - Get(card_call.original, c), 0)

\* C20 amended: whenever minus holds at most as many cards of each kind as
\* original, the merge of the result with minus holds the same number of
\* cards of every kind as original, and is equal to it when neither
\* collection has an entry of count 0; the leftover is empty; in general the
\* result holds max(X[c] - Y[c], 0) and the leftover max(Y[c] - X[c], 0).
C20_RoundTripSameCounts ==
    card_call.pc = "merged" =>
       /\ Within(card_call.minus, card_call.original) =>
             /\ SameCounts(card_call.merged, card_call.original)
             /\ NoZeroCount(card_call.original) /\ NoZeroCount(card_call.minus)
                    => card_call.merged = card_call.original
             /\ card_call.leftover = EmptyTrainCards
       /\ \A c \in Kinds :
             /\ Get(card_call.result, c) =
                    Max(Get(card_call.original, c) - Get(card_call.minus, c), 0)
             /\ Get(card_call.leftover, c) =
                    Max(Get(card_call.minus, c) - Get(card_call.original, c), 0)

\* A subtraction that uses up one kind entirely and part of another, merged
\* back.
C20_Witness ==
    /\ card_call.pc = "merged"
    /\ Within(card_call.minus, card_call.original)
    /\ len(card_call.original) = 3 /\ NoZeroCount(card_call.original)
    /\ len(card_call.minus) = 2 /\ NoZeroCount(card_call.minus)
    /\ len(card_call.result) = 2
    /\ card_call.merged = card_call.original

\* ------------------------------------------------------------------------
\* Clusters with its table of distances, as used by the route planning.

\* costs = {route.cities: route.length for route in self.routes}
route_costs ==
    [p \in {RouteTable[r].cities : r \in Routes} |->
        RouteTable[CHOOSE r \in Routes : RouteTable[r].cities = p].length]

\* One round of the outer loop of Floyd-Warshall, for the city k. The round
\* reads only entries that hold k and writes only entries that do not, so
\* the updates of the two inner loops are independent of their order.
floyd_warshall_round(costs, k) ==
    LET First(p) == CHOOSE x \in p : TRUE
        Second(p) == CHOOSE y \in p \ {First(p)} : TRUE
        via(i, j) == costs[{i, k}] + costs[{k, j}]
        improves(i, j) ==
            /\ {i, k} \in DOMAIN costs
            /\ {k, j} \in DOMAIN costs
            /\ \/ {i, j} \notin DOMAIN costs
               \/ via(i, j) < costs[{i, j}]
        improved == {p \in {{i, j} : i, j \in Cities \ {k}} :
                        /\ Cardinality(p) = 2
                        /\ improves(First(p), Second(p))}
    IN [p \in DOMAIN costs \cup improved |->
           IF p \in improved THEN via(First(p), Second(p)) ELSE costs[p]]

RECURSIVE floyd_warshall(_, _)
floyd_warshall(costs, cities) ==
    IF cities = {} THEN costs
    ELSE LET k == CHOOSE c \in cities : TRUE
         IN floyd_warshall(floyd_warshall_round(costs, k), cities \ {k})

\* Board.shortest_paths
shortest_paths == floyd_warshall(route_costs, Cities)

\* Clusters(clusters, distances)
Clusters(clusters, distances) ==
    [clusters |-> clusters, distances |-> distances]

\* The value of a failed dictionary lookup.
KeyError == [error |-> "KeyError"]

\* Clusters.distance
distance(self, from_city, to_city) ==
    IF from_city = to_city THEN 0
    ELSE IF {from_city, to_city} \in DOMAIN self.distances
         THEN self.distances[{from_city, to_city}]
         ELSE KeyError

Min3(x, y, z) == Min(x, Min(y, z))

\* The table of distances with only one of the two ways through the new
\* connection.
new_distances_one_way(self, a, b) ==
    [edge \in DOMAIN self.distances |->
        LET s == CHOOSE x \in edge : TRUE
            t == CHOOSE y \in edge \ {s} : TRUE
        IN Min(self.distances[edge],
               distance(self, s, a) + distance(self, b, t))]

\* The table of distances that connect computes.
new_distances(self, a, b) ==
    [edge \in DOMAIN self.distances |->
        LET s == CHOOSE x \in edge : TRUE
            t == CHOOSE y \in edge \ {s} : TRUE
        IN Min3(self.distances[edge],
                distance(self, s, a) + distance(self, b, t),
                distance(self, s, b) + distance(self, a, t))]

\* Clusters.connect merging the components and keeping the old distances.
Clusters_connect_stale(self, a, b) ==
    Clusters(connect(self.clusters, a, b), self.distances)

\* Clusters.connect
Clusters_connect(self, a, b) ==
    Clusters(connect(self.clusters, a, b), new_distances(self, a, b))

InitClusters ==
    /\ LoopUnused
    /\ card_call = Unused /\ node = Unused /\ tree = Unused
    /\ cluster_obj = [self |-> Clusters({}, shortest_paths), last |-> {}]

\* clusters = clusters.connect(a, b)
Connect ==
    /\ \E a, b \in Cities :
          /\ a # b
          /\ cluster_obj' = [self |-> Clusters_connect(cluster_obj.self, a, b),
                             last |-> {a, b}]
    /\ UNCHANGED <<loop_vars, card_call, node, tree>>

NextClusters == Connect

SpecClusters == InitClusters /\ [][NextClusters]_vars

\* The cities of one component of the clusters.
SameComponent(self, x, y) == is_connected(self.clusters, {x, y})

\* A length greater than that of every path without a repeated route.
Far == SumOver([r \in Routes |-> RouteTable[r].length], Routes) + 1

\* The length of the direct step between two cities in the board in which the
\* cities of one component are at length 0 of each other.
StepLength(self, s, t) ==
    IF s = t \/ SameComponent(self, s, t) THEN 0
    ELSE LET direct == {RouteTable[r].length :
                           r \in {x \in Routes : RouteTable[x].cities = {s, t}}}
         IN IF direct = {} THEN Far
            ELSE CHOOSE l \in direct : \A m \in direct : l <= m

MinOf(S) == CHOOSE l \in S : \A m \in S : l <= m

\* The table of the lengths of the paths made of two paths of the table.
TwoPaths(shorter) ==
    [s \in Cities |-> [t \in Cities |->
        MinOf({shorter[s][k] + shorter[k][t] : k \in Cities})]]

\* The lengths of the shortest paths of at most 2^n steps, for every two
\* cities.
RECURSIVE PathLengths(_, _)
PathLengths(self, n) ==
    IF n = 0 THEN [s \in Cities |-> [t \in Cities |-> StepLength(self, s, t)]]
    ELSE CHOOSE longer \in {TwoPaths(shorter) :
                               shorter \in {PathLengths(self, n - 1)}} : TRUE

\* C18: after any sequence of connect calls from Clusters({}, shortest_paths)
\* the distance of every two cities is the length of the shortest path
\* between them in the board in which connected cities are at length 0 and
\* every other route keeps its length.
C18_DistanceIsShortestPath ==
    \A shortest \in {PathLengths(cluster_obj.self, Cardinality(Cities))} :
        \A s, t \in Cities : distance(cluster_obj.self, s, t) = shortest[s][t]

\* Two connections made, and a pair of cities of different components whose
\* distance is shorter than on the empty board.
C18_Witness ==
    /\ Cardinality(cluster_obj.self.clusters) = 2
    /\ \E s, t \in Cities :
          /\ ~SameComponent(cluster_obj.self, s, t)
          /\ distance(cluster_obj.self, s, t) > 0
          /\ distance(cluster_obj.self, s, t) < shortest_paths[{s, t}]

\* C19: after any sequence of connect calls the distance of every two cities
\* of one component is 0, the two cities just connected included, and the
\* components are pairwise disjoint.
C19_ZeroWithinComponent ==
    /\ \A x, y \in Cities :
          SameComponent(cluster_obj.self, x, y) =>
              distance(cluster_obj.self, x, y) = 0
    /\ \A x, y \in cluster_obj.last : distance(cluster_obj.self, x, y) = 0
    /\ \A c, d \in cluster_obj.self.clusters : c # d => c \cap d = {}

\* Two connections that share a city: the ends of the chain were never
\* connected to each other and are at distance 0.
C19_Witness ==
    /\ cluster_obj.last # {}
    /\ \E c \in cluster_obj.self.clusters :
          /\ Cardinality(c) = 3
          /\ \E x \in c : x \notin cluster_obj.last
    /\ Cardinality(cluster_obj.self.clusters) = 2

\* ------------------------------------------------------------------------
\* The chance nodes of McExpectiminimaxActor._score_state. The floats of the
\* code are exact fractions here.

\* The breadth None, which is no whole number of samples.
NoBreadth == 0 - 1


\* Utility(): the empty Utility.
Utility_empty == [k \in {} |-> Rat(0, 1)]

\* Utility.get(key, 0)
Utility_get(u, key) == IF key \in DOMAIN u THEN u[key] ELSE Rat(0, 1)

\* Utility.__add__ of two utilities
Utility_add(u, other) ==
    [key \in DOMAIN u \cup DOMAIN other |->
        RatAdd(Utility_get(u, key), Utility_get(other, key))]

\* Utility.__mul__ and __rmul__
Utility_mul(u, other) == [key \in DOMAIN u |-> RatMul(u[key], other)]

\* Utility.__truediv__ by a whole number
Utility_truediv(u, other) == [key \in DOMAIN u |-> RatMul(u[key], Rat(1, other))]

\* Utility.sum: functools.reduce(operator.add, utilities, cls())
RECURSIVE Utility_sum(_)
Utility_sum(utilities) ==
    IF utilities = <<>> THEN Utility_empty
    ELSE Utility_add(Utility_sum(SubSeq(utilities, 1, Len(utilities) - 1)),
                     utilities[Len(utilities)])

\* randomly_sample_distribution: the sequences of sample_size elements it can
\* yield. A draw walks the list while rand > cum, so it stops at an element
\* of positive probability, or at the first element when random() is 0.
randomly_sample_distribution(collected, sample_size) ==
    {picks \in [1..sample_size -> DOMAIN collected] :
        \A n \in 1..sample_size :
            \/ collected[picks[n]].probability.num > 0
            \/ picks[n] = 1}

\* The branch of a game turn with breadth None: the sum over the outcomes of
\* probability * utility.
score_all_outcomes(outcomes) ==
    Utility_sum([i \in DOMAIN outcomes |->
                    Utility_mul(outcomes[i].utility, outcomes[i].probability)])

\* The branch of a game turn with a breadth: the sum of the utilities of the
\* sampled outcomes, divided by breadth.
score_sampled_outcomes(outcomes, picks, breadth) ==
    Utility_truediv(Utility_sum([n \in DOMAIN picks |-> outcomes[picks[n]].utility]),
                    breadth)

\* _score_state at a game turn that samples only when there are more
\* outcomes than breadth.
score_game_turn_capped(outcomes, breadth) ==
    IF breadth = NoBreadth \/ Len(outcomes) <= breadth
    THEN {[value |-> score_all_outcomes(outcomes), samples |-> <<>>]}
    ELSE {[value |-> score_sampled_outcomes(outcomes, picks, breadth),
           samples |-> picks] :
             picks \in randomly_sample_distribution(outcomes, breadth)}

\* _score_state at a game turn: the values it can return, with the samples
\* drawn.
score_game_turn(outcomes, breadth) ==
    IF breadth = NoBreadth
    THEN {[value |-> score_all_outcomes(outcomes), samples |-> <<>>]}
    ELSE {[value |-> score_sampled_outcomes(outcomes, picks, breadth),
           samples |-> picks] :
             picks \in randomly_sample_distribution(outcomes, breadth)}

\* The lists of at most MaxOutcomes outcomes whose probabilities, multiples
\* of 1 / ProbabilityParts, add up to 1; the utility of an outcome is that of
\* its successor state, for the first player.
Outcome(u, w) ==
    [utility |-> (players[1] :> Rat(u, 1)), probability |-> Rat(w, ProbabilityParts)]


OutcomeLists ==
    UNION {{[i \in 1..n |-> Outcome(us[i], ws[i])] :
               us \in [1..n -> 0..MaxUtility],
               ws \in {x \in [1..n -> 0..ProbabilityParts] :
                          SumOfSeq(x) = ProbabilityParts}} :
           n \in 1..MaxOutcomes}

InitChance ==
    /\ LoopUnused
    /\ card_call = Unused /\ cluster_obj = Unused /\ tree = Unused
    /\ node \in {[pc |-> "start", outcomes |-> o, breadth |-> b,
                  value |-> Utility_empty, samples |-> <<>>] :
                    o \in OutcomeLists, b \in {NoBreadth} \cup 1..MaxBreadth}

\* utility, _, _ = self._score_state(state, current_depth) at a game turn
ScoreGameTurn ==
    /\ node.pc = "start"
    /\ \E r \in score_game_turn(node.outcomes, node.breadth) :
          node' = [node EXCEPT !.pc = "done", !.value = r.value,
                               !.samples = r.samples]
    /\ UNCHANGED <<loop_vars, card_call, cluster_obj, tree>>

NextChance == ScoreGameTurn

SpecChance == InitChance /\ [][NextChance]_vars

\* The utility of an outcome for the first player, and the number of parts
\* of its probability.
UtilityOf(o) == o.utility[players[1]].num

PartsOf(o) == o.probability.num

\* The value is the expectation of the utility over all outcomes.
IsExpectation(value, outcomes) ==
    /\ DOMAIN value = {players[1]}
    /\ RatEq(value[players[1]],
             Rat(SumOfSeq([i \in DOMAIN outcomes |->
                             PartsOf(outcomes[i]) * UtilityOf(outcomes[i])]),
                 ProbabilityParts))

\* The value is the mean of the utilities of the sampled outcomes.
IsSampleMean(value, outcomes, samples) ==
    /\ DOMAIN value = {players[1]}
    /\ RatEq(value[players[1]],
             Rat(SumOfSeq([n \in DOMAIN samples |-> UtilityOf(outcomes[samples[n]])]),
                 Len(samples)))

\* C17 as stated: with a number of outcomes at or below the breadth the node
\* is scored by the exact expectation over all outcomes and draws no
\* sample; with more outcomes it draws exactly breadth samples.
C17_ExactAtOrBelowCap ==
    node.pc = "done" /\ node.breadth # NoBreadth =>
        IF Len(node.outcomes) <= node.breadth
        THEN /\ IsExpectation(node.value, node.outcomes)
             /\ node.samples = <<>>
        ELSE Len(node.samples) = node.breadth

\* C17 amended: the node is scored by the exact expectation over all
\* outcomes, without a sample, only when breadth is None; with a breadth it
\* draws exactly breadth samples, however few the outcomes, each an outcome
\* of positive probability or the first of the list, and returns the mean of
\* the utilities of the sampled outcomes.
C17_ExactOnlyWithoutBreadth ==
    node.pc = "done" =>
        IF node.breadth = NoBreadth
        THEN /\ IsExpectation(node.value, node.outcomes)
             /\ node.samples = <<>>
        ELSE /\ Len(node.samples) = node.breadth
             /\ \A n \in DOMAIN node.samples :
                   /\ node.samples[n] \in DOMAIN node.outcomes
                   /\ \/ PartsOf(node.outcomes[node.samples[n]]) > 0
                      \/ node.samples[n] = 1
             /\ IsSampleMean(node.value, node.outcomes, node.samples)

\* Two outcomes under a breadth of two: the same outcome sampled twice, the
\* value returned being its utility and not the expectation.
C17_Witness ==
    /\ node.pc = "done"
    /\ node.breadth = Len(node.outcomes)
    /\ Len(node.outcomes) > 1
    /\ Len(node.samples) = node.breadth
    /\ node.samples[1] = node.samples[2]
    /\ ~IsExpectation(node.value, node.outcomes)

\* ------------------------------------------------------------------------
\* The decision nodes of ExpectimaxActor and McExpectiminimaxActor: a node
\* is the list of the utilities its successors are scored with, in the order
\* get_legal_actions generates the actions; an action is its place in the
\* list.

\* The action None of a result without an action.
NoIndex == 0

Returned(utility, action) ==
    [raised |-> "", utility |-> utility, action |-> action]

\* An exception leaving the call.
Exception(name) ==
    [raised |-> name, utility |-> [p \in PlayerSet |-> 0], action |-> NoIndex]

\* The first place of the list whose key is the greatest.
first_max(keys) ==
    CHOOSE i \in DOMAIN keys :
        /\ \A j \in DOMAIN keys : keys[j] <= keys[i]
        /\ \A j \in 1..(i - 1) : keys[j] < keys[i]

\* max(successors_with_utility, key=lambda r: r[0][state.turn_state.player])
max_by_player_utility(successors, player) ==
    IF successors = <<>> THEN Exception("ValueError")
    ELSE LET i == first_max([j \in DOMAIN successors |-> successors[j][player]])
         IN Returned(successors[i], i)

\* McExpectiminimaxActor._score_state at a node of the deciding player,
\* whose hand is known.
Mc_score_state(own, successors, player, current_depth) ==
    IF current_depth <= 0 THEN Returned(own, NoIndex)
    ELSE max_by_player_utility(successors, player)

\* McExpectiminimaxActor._get_action
Mc_get_action(own, successors, player, depth) ==
    LET r == Mc_score_state(own, successors, player, depth - 1)
    IN IF r.raised = "" /\ r.action = NoIndex
       THEN Exception("AssertionError")
       ELSE r

\* min_or_max(successors_with_utility, key=operator.itemgetter(0)): the keys
\* are Utility objects, which define no order, so the first comparison, made
\* when there is a second element, raises TypeError.
min_or_max_by_utility(successors, maximize) ==
    IF successors = <<>> THEN Exception("ValueError")
    ELSE IF Len(successors) = 1 THEN Returned(successors[1], 1)
    ELSE Exception("TypeError")

\* ExpectimaxActor._score_state at a node of a player whose hand is known.
Expectimax_score_state(own, successors, deciding, searching, depth) ==
    IF depth <= 0 THEN Returned(own, NoIndex)
    ELSE min_or_max_by_utility(successors, deciding = searching)

Utilities == [PlayerSet -> 0..MaxUtility]

SuccessorLists == UNION {[1..n -> Utilities] : n \in 1..MaxSuccessors}

InitDecision ==
    /\ LoopUnused
    /\ card_call = Unused /\ cluster_obj = Unused /\ tree = Unused
    /\ node \in {[pc |-> "start", own |-> [p \in PlayerSet |-> 0],
                  successors |-> ss, deciding |-> d, searching |-> players[1],
                  depth |-> n, result |-> Exception("")] :
                    ss \in SuccessorLists, d \in PlayerSet, n \in 0..MaxDepth}

\* action = actor._get_action() of a McExpectiminimaxActor on its own turn,
\* its depth at least 1
McGetAction ==
    /\ node.pc = "start"
    /\ node.depth >= 1
    /\ node.deciding = node.searching
    /\ node' = [node EXCEPT
                  !.pc = "McExpectiminimaxActor._get_action",
                  !.result = Mc_get_action(node.own, node.successors,
                                           node.deciding, node.depth)]
    /\ UNCHANGED <<loop_vars, card_call, cluster_obj, tree>>

\* ExpectimaxActor._score_state(state, depth, ...) at a player's turn
ExpectimaxScoreState ==
    /\ node.pc = "start"
    /\ node' = [node EXCEPT
                  !.pc = "ExpectimaxActor._score_state",
                  !.result = Expectimax_score_state(node.own, node.successors,
                                 node.deciding, node.searching, node.depth)]
    /\ UNCHANGED <<loop_vars, card_call, cluster_obj, tree>>

NextDecision == McGetAction \/ ExpectimaxScoreState

SpecDecision == InitDecision /\ [][NextDecision]_vars

\* C13: a McExpectiminimaxActor of any depth >= 1 asked for an action on its
\* own turn returns one of the legal actions of its state and never fails.
C13_ActionAlwaysLegal ==
    node.pc = "McExpectiminimaxActor._get_action" =>
        /\ node.result.raised = ""
        /\ node.result.action \in DOMAIN node.successors

\* The places of the list whose utility for the searching player is the
\* greatest, or the least.
BestPlaces(successors, searching, maximize) ==
    {i \in DOMAIN successors :
        \A j \in DOMAIN successors :
            IF maximize THEN successors[j][searching] <= successors[i][searching]
            ELSE successors[j][searching] >= successors[i][searching]}

\* C16: at a decision node with depth > 0 ExpectimaxActor._score_state
\* returns the first generated action among those whose successor has the
\* greatest utility for the searching player when the searching player
\* decides, and the least such utility otherwise.
C16_FirstBestActionReturned ==
    node.pc = "ExpectimaxActor._score_state" /\ node.depth > 0 =>
        LET best == BestPlaces(node.successors, node.searching,
                               node.deciding = node.searching)
        IN /\ node.result.raised = ""
           /\ node.result.action \in best
           /\ \A i \in best : node.result.action <= i

\* ------------------------------------------------------------------------
\* MctsActor and the _Node of its search tree. The tree is the function from
\* the path of a node, the places of the children taken from the root, to
\* the node.

IsPlayerTurn(state) == state.turn_state.type \in PlayerTurnTypes

\* _Node(state, parent); the parent is the path without its last place.
\* legal is what list(state.get_legal_actions()) gave, which did not raise.
Node_make(state, legal) ==
    [state |-> state,
     children |-> <<>>,
     children_utilities |-> <<>>,
     children_visits |-> <<>>,
     visits |-> 0,
     untried_actions |-> legal.actions]

\* _Node.expanded
expanded(n) == n.untried_actions = {}

\* The read of an attribute that the object does not have.
AttributeError == [error |-> "AttributeError"]

\* _Node.terminal: self.state.is_game_over(), a method no KnownState has.
terminal(n) == AttributeError

\* _Node.select_leaf from the node of the path: a node with untried actions
\* is the leaf; of an expanded node the loop asks terminal, which raises
\* before best_child is called.
select_leaf(nodes, path) ==
    IF expanded(nodes[path])
    THEN [raised |-> terminal(nodes[path]).error, path |-> path]
    ELSE [raised |-> "", path |-> path]

\* _Node.expand with the action drawn, the legal actions of the new state
\* listed as given: the tree afterwards
expand(nodes, path, action, legal) ==
    LET n == nodes[path]
        child == Append(path, Len(n.children) + 1)
    IN [q \in DOMAIN nodes \cup {child} |->
          IF q = child
          THEN Node_make(KnownState_next_state(n.state, action), legal)
          ELSE IF q = path
          THEN [n EXCEPT !.untried_actions = @ \ {action},
                         !.children = Append(@, action),
                         !.children_utilities = Append(@, 0),
                         !.children_visits = Append(@, 0)]
          ELSE nodes[q]]

IsPrefix(q, path) == Len(q) <= Len(path) /\ SubSeq(path, 1, Len(q)) = q

\* Utility({winner: 1})[player]
utility_of(winner, player) == IF winner = player THEN 1 ELSE 0

\* Mutant: the utility credited is that of the player deciding in the child.
backup_for_child_player(nodes, path, winner) ==
    [q \in DOMAIN nodes |->
        LET n == nodes[q]
        IN IF ~IsPrefix(q, path) THEN n
           ELSE IF q = path THEN [n EXCEPT !.visits = @ + 1]
           ELSE LET i == path[Len(q) + 1]
                IN [n EXCEPT
                      !.visits = @ + 1,
                      !.children_visits[i] = @ + 1,
                      !.children_utilities[i] =
                          @ + LET child == nodes[Append(q, i)]
                              IN IF IsPlayerTurn(child.state)
                                 THEN utility_of(winner, child.state.turn_state.player)
                                 ELSE 0]]

\* _Node.backup from the node of the path, with Utility({winner: 1})
backup(nodes, path, winner) ==
    [q \in DOMAIN nodes |->
        LET n == nodes[q]
        IN IF ~IsPrefix(q, path) THEN n
           ELSE IF q = path THEN [n EXCEPT !.visits = @ + 1]
           ELSE LET i == path[Len(q) + 1]
                IN [n EXCEPT
                      !.visits = @ + 1,
                      !.children_visits[i] = @ + 1,
                      !.children_utilities[i] =
                          @ + (IF IsPlayerTurn(n.state)
                               THEN utility_of(winner, n.state.turn_state.player)
                               ELSE 0)]]

\* _get_state_winner(state).  BasicMctsActor asks state.is_game_over(); the
\* utility functions of UfMctsActor read train_cards_count, known_train_cards
\* or known_points_so_far of the hands.  A KnownState and its hands have none
\* of them.
get_state_winner(state) == AttributeError

\* The actor t after a call of get_action that raised the exception.
get_action_raised(t, exception) ==
    [t EXCEPT !.call = "get_action", !.raised = exception, !.calls = @ + 1]

\* MctsActor.get_action with iterations >= 1: what the call can leave of the
\* actor t.  The first iteration selects the leaf, expands it and raises in
\* the simulation; the backup, the further iterations and the return of the
\* best child are not reached.  The child that expand made stays in the tree
\* with 0 visits.
Mcts_get_action(t) ==
    LET leaf == select_leaf(t.nodes, <<>>)
    IN IF leaf.raised # "" THEN {get_action_raised(t, leaf.raised)}
       ELSE UNION {
              LET state == KnownState_next_state(t.nodes[leaf.path].state,
                                                 action)
              IN IF IsError(state) THEN {get_action_raised(t, state.error)}
                 ELSE {IF legal.raised # ""
                       THEN get_action_raised(t, legal.raised)
                       ELSE [get_action_raised(t, get_state_winner(state).error)
                               EXCEPT !.nodes = expand(t.nodes, leaf.path,
                                                       action, legal),
                                      !.made = @ + 1] :
                         legal \in Listed(state)}
              : action \in t.nodes[leaf.path].untried_actions}

\* The new root of MctsActor.observe_action: `action is self.tree.children`
\* compares the action with the dictionary itself and is never true, so the
\* tree is always a new node.
observe_action(nodes, action, legal) ==
    (<<>> :> Node_make(KnownState_next_state(nodes[<<>>].state, action), legal))

\* The actor t after a call of observe_action that raised the exception.
observe_action_raised(t, exception) ==
    [t EXCEPT !.call = "observe_action", !.raised = exception]

\* MctsActor.observe_action(action) of the actor t holding the state:
\* PlayerActor.observe_action assigns state.next_state(action), then the new
\* root is made of self.tree.state.next_state(action).  An exception leaves what
\* was assigned before it.
Mcts_observe_action(t, state, action) ==
    LET observed == Known_observe(state, action)
        next == KnownState_next_state(t.nodes[<<>>].state, action)
    IN IF IsError(observed)
       THEN {[state |-> state, tree |-> observe_action_raised(t, observed.error)]}
       ELSE IF IsError(next)
       THEN {[state |-> observed, tree |-> observe_action_raised(t, next.error)]}
       ELSE {[state |-> observed,
              tree |-> IF legal.raised # ""
                       THEN observe_action_raised(t, legal.raised)
                       ELSE [t EXCEPT !.call = "observe_action",
                                      !.raised = "",
                                      !.nodes = observe_action(t.nodes, action,
                                                               legal),
                                      !.made = @ + 1,
                                      !.done = 0]] :
               legal \in Listed(next)}

\* The player actors of play_game observing an accepted action in the order
\* of the dictionary of players, from the i-th player on.  r holds the
\* MctsActor (state, tree) and the KnownState of every other player actor
\* (others); the first observe_action that raises ends the round with what
\* was assigned until then.
RECURSIVE observe_from(_, _, _)
observe_from(i, r, action) ==
    IF i > Len(players) THEN {r}
    ELSE IF players[i] = r.tree.player
    THEN UNION {IF o.tree.raised # ""
                THEN {[r EXCEPT !.state = o.state, !.tree = o.tree,
                                !.raised = TRUE]}
                ELSE observe_from(i + 1,
                                  [r EXCEPT !.state = o.state, !.tree = o.tree],
                                  action) :
                  o \in Mcts_observe_action(r.tree, r.state, action)}
    ELSE LET observed == Known_observe(r.others[players[i]], action)
         IN IF IsError(observed) THEN {[r EXCEPT !.raised = TRUE]}
            ELSE observe_from(i + 1,
                              [r EXCEPT !.others[players[i]] = observed],
                              action)

\* The body of the loop of play_game for a proposed action, one player being
\* the MctsActor t with its state and the others holding a KnownState each:
\* the first error of the actors rejects the action, else the action is
\* appended to the history and the actors observe it, the players first in
\* the order of the dictionary, then the game actor.  An observe_action that
\* raises leaves play_game: the actors after it, the game actor among them,
\* do not observe the action.
Mcts_play_game_iteration(g, state, t, others, action, returned) ==
    LET errors == {Player_validate_action(state, action) : p \in PlayerSet}
                    \cup {validate_action(g, action)}
    IN IF errors # {None}
       THEN {[game |-> g, state |-> state, tree |-> t, others |-> others,
              outcome |-> "rejected"]}
       ELSE {[game |-> IF r.raised THEN g
                       ELSE record_action(g, action, returned).actor,
              state |-> r.state, tree |-> r.tree, others |-> r.others,
              outcome |-> IF r.raised THEN "raised" ELSE "observed"] :
                r \in observe_from(1, [state |-> state, tree |-> t,
                                       others |-> others, raised |-> FALSE],
                                   action)}

\* play_game({p1: ..., p2: ...}, SimulatedGameActor.make(box)), the actor of
\* one player being a MctsActor with the state of KnownState.make and the
\* root that __post_init__ makes of it, the actor of every other player a
\* PlayerActor holding the KnownState of KnownState.make (st), with
\* print_state given or left at its default.  The classes of mcts.py leave
\* _get_action of PlayerActor abstract, so the MctsActor is an instance of a
\* subclass that defines it.  made counts the _Node objects constructed,
\* done the iterations completed since the root was made, calls the calls of
\* get_action.
InitMcts ==
    /\ game \in {SimulatedGameActor_make(tpile, dpile) :
                     tpile \in TrainShuffles, dpile \in DestinationShuffles}
    /\ ks = KnownState_make
    /\ should_print_state \in [PlayerSet -> BOOLEAN]
    /\ act = NoAction
    /\ outcome = "init"
    /\ steps = 0
    /\ card_call = Unused /\ cluster_obj = Unused /\ node = Unused
    /\ \E p \in PlayerSet, n \in 1..MaxIterations,
          legal \in Listed(KnownState_make) :
          /\ tree = [player |-> p, iterations |-> n, call |-> "__post_init__",
                     raised |-> "", action |-> NoAction,
                     nodes |-> (<<>> :> Node_make(KnownState_make, legal)),
                     made |-> 1, done |-> 0, calls |-> 0]
          /\ st = [q \in PlayerSet \ {p} |-> KnownState_make]

MctsIterate(g, action) ==
    \E returned \in ReturnedCards(g, action) :
    \E r \in Mcts_play_game_iteration(g, ks, tree, st, action, returned) :
          /\ game' = r.game
          /\ ks' = r.state
          /\ tree' = r.tree
          /\ st' = r.others
          /\ outcome' = r.outcome
          /\ IF r.outcome = "rejected"
             THEN UNCHANGED <<act, steps>>
             ELSE /\ act' = action
                  /\ steps' = steps + 1

\* One iteration of the loop on a game turn.
MctsGameStep ==
    /\ Running
    /\ game.turn_state.player = NoPlayer
    /\ \E d \in Sim_get_action(game) : MctsIterate(d.actor, d.action)
    /\ UNCHANGED <<should_print_state, card_call, cluster_obj, node>>

\* One iteration of the loop on the turn of the MctsActor's player:
\* players[player].get_action() raises and the exception leaves play_game;
\* no action is validated or observed.
MctsGetAction ==
    /\ Running
    /\ game.turn_state.player = tree.player
    /\ tree' \in Mcts_get_action(tree)
    /\ outcome' = "raised"
    /\ UNCHANGED <<game, st, ks, should_print_state, act, steps>>
    /\ UNCHANGED <<card_call, cluster_obj, node>>

\* PlayerActor.get_action of another player's actor that prints the state:
\* print_state raises AttributeError, which leaves play_game.
MctsPrintState ==
    /\ Running
    /\ game.turn_state.player \in PlayerSet \ {tree.player}
    /\ should_print_state[game.turn_state.player]
    /\ outcome' = "raised"
    /\ UNCHANGED <<game, st, ks, should_print_state, act, steps>>
    /\ UNCHANGED <<card_call, cluster_obj, node, tree>>

\* One iteration of the loop on the turn of another player, the action of
\* that player's actor being accepted.
MctsPlayerStep ==
    /\ Running
    /\ game.turn_state.player \in PlayerSet \ {tree.player}
    /\ ~should_print_state[game.turn_state.player]
    /\ \E a \in Proposals(game) \cup LegalActions(st[game.turn_state.player]) :
          /\ validate_action(game, a) = None
          /\ MctsIterate(game, a)
    /\ UNCHANGED <<should_print_state, card_call, cluster_obj, node>>

\* One iteration of the loop on the turn of another player, the action being
\* rejected.
MctsPlayerRejected ==
    /\ Running
    /\ game.turn_state.player \in PlayerSet \ {tree.player}
    /\ ~should_print_state[game.turn_state.player]
    /\ \E a \in Proposals(game) \cup LegalActions(st[game.turn_state.player]) :
          /\ validate_action(game, a) # None
          /\ MctsIterate(game, a)
    /\ UNCHANGED <<should_print_state, card_call, cluster_obj, node>>

NextMcts ==
    MctsGameStep \/ MctsGetAction \/ MctsPrintState \/ MctsPlayerStep
      \/ MctsPlayerRejected

SpecMcts == InitMcts /\ [][NextMcts]_vars

\* C15: after at least one iteration from a root at the actor's turn,
\* get_action returns the action of a child of the root whose average
\* utility, its utilities over its visits, is the greatest among the
\* children of the root, whatever their visits; the action is a legal action
\* of the root state.
C15_BestAverageReturned ==
    tree.call = "get_action" =>
        LET root == tree.nodes[<<>>]
        IN /\ tree.raised = ""
           /\ tree.action \in LegalActions(root.state)
           /\ \A j \in DOMAIN root.children : root.children_visits[j] >= 1
           /\ \E i \in DOMAIN root.children :
                 /\ root.children[i] = tree.action
                 /\ \A j \in DOMAIN root.children :
                       root.children_utilities[j] * root.children_visits[i]
                         <= root.children_utilities[i] * root.children_visits[j]


\* The items of the collections of at most n cards of each kind, in every
\* order of iteration.
ItemsUpTo(n) ==
    UNION {{[i \in 1..Cardinality(keys) |-> <<order[i], counts[order[i]]>>] :
               order \in {o \in [1..Cardinality(keys) -> keys] :
                              \A k \in keys : \E i \in DOMAIN o : o[i] = k},
               counts \in [keys -> 0..n]} :
           keys \in SUBSET Kinds}

InitProbability ==
    /\ LoopUnused
    /\ cluster_obj = Unused /\ node = Unused /\ tree = Unused
    /\ card_call \in {[pc |-> "arguments", cards |-> x, hand_size |-> h,
                       pile_distribution |-> y,
                       result |-> Number(Rat(0, 1))] :
                         x \in ItemsUpTo(MaxCount), h \in 0..MaxHandSize,
                         y \in TrainCardsUpTo(MaxCount)}

\* result = probability_of_having_cards(cards, hand_size, pile_distribution)
ProbabilityOfHavingCards ==
    /\ card_call.pc = "arguments"
    /\ card_call' = [card_call EXCEPT !.pc = "returned",
                       !.result = probability_of_having_cards(
                                      card_call.cards, card_call.hand_size,
                                      card_call.pile_distribution)]
    /\ UNCHANGED <<loop_vars, cluster_obj, node, tree>>

NextProbability == ProbabilityOfHavingCards

SpecProbability == InitProbability /\ [][NextProbability]_vars

\* The cards of a pile, told apart, and the hands of a given size drawn from
\* them without replacement (the whole pile when it is smaller than the hand).
PileCards(pile) == UNION {{<<k, j>> : j \in 1..pile[k]} : k \in DOMAIN pile}

HandsOf(pile, hand_size) ==
    {hand \in SUBSET PileCards(pile) :
        Cardinality(hand) = Min(hand_size, total(pile))}

Holds(hand, needed) ==
    \A k \in DOMAIN needed :
        Cardinality({c \in hand : c[1] = k}) >= needed[k]

IsProbabilityOfHolding(value, needed, hand_size, pile) ==
    LET hands == HandsOf(pile, hand_size)
    IN value.num * Cardinality(hands) =
       value.den * Cardinality({hand \in hands : Holds(hand, needed)})

\* C21: probability_of_having_cards(needed, hand_size, pile) returns exactly
\* 1 when needed is empty, exactly 0 when some needed count exceeds the pile's
\* count of that kind, and otherwise the probability that hand_size cards
\* drawn without replacement from the pile contain at least the needed cards.
C21_ProbabilityOfDraw ==
    card_call.pc = "returned" =>
        LET needed == TrainCardsOf(card_call.cards)
            pile == card_call.pile_distribution
        IN /\ card_call.result.raised = ""
           /\ IF DOMAIN needed = {}
              THEN card_call.result.value = Rat(1, 1)
              ELSE IF \E k \in DOMAIN needed : needed[k] > Get(pile, k)
              THEN card_call.result.value = Rat(0, 1)
              ELSE IsProbabilityOfHolding(card_call.result.value, needed,
                                          card_call.hand_size, pile)

\* C22: for every input, an empty pile, a hand size of 0 and needed entries of
\* count 0 included, probability_of_having_cards returns a value without
\* dividing by zero, and the value is 1 whenever every needed count is 0.
C22_NoDivisionByZero ==
    card_call.pc = "returned" =>
        /\ card_call.result.raised # "ZeroDivisionError"
        /\ (\A i \in DOMAIN card_call.cards : card_call.cards[i][2] = 0)
              => card_call.result = Number(Rat(1, 1))

\* ------------------------------------------------------------------------
\* Claims about the game loop, continued.

RotatingTurnTypes ==
    {"PlayerStartTurn", "PlayerTrainCardDrawMidTurn",
     "PlayerDestinationCardDrawMidTurn", "DestinationCardDealTurn"}

\* The rotating turn phase a turn state is or, for a TrainCardDealTurn,
\* stores as its next_turn_state; NoTurn when there is none.
RotatingTurnOf(t) ==
    IF t.type \in RotatingTurnTypes THEN Brief(t)
    ELSE IF t.type = "TrainCardDealTurn"
            /\ t.next_turn_state.type \in RotatingTurnTypes
    THEN t.next_turn_state
    ELSE NoTurn


LastTurnStarted(t) ==
    RotatingTurnOf(t) # NoTurn /\ RotatingTurnOf(t).last_turn_started

LastTurnNotStarted(t) ==
    RotatingTurnOf(t) # NoTurn /\ ~RotatingTurnOf(t).last_turn_started

\* C23: last_turn_started is monotonic along every run: once a rotating turn
\* phase (one stored as the next_turn_state of a TrainCardDealTurn included)
\* has the flag true, no later rotating turn phase of the game has it false,
\* in the game actor and in the full-knowledge state of the player actors.
C23_LastTurnStartedMonotonic ==
    /\ [](LastTurnStarted(game.turn_state)
            => [](~LastTurnNotStarted(game.turn_state)))
    /\ [](LastTurnStarted(TurnStateOf(ks))
            => [](~LastTurnNotStarted(TurnStateOf(ks))))

\* A player below the threshold has drawn a first train card: the draw in
\* the middle of the turn carries the flag, and the phase before the turn
\* did not.
C23_Witness ==
    /\ ks.turn_state.type = "PlayerTrainCardDrawMidTurn"
    /\ ks.turn_state.last_turn_started
    /\ game.turn_state = ks.turn_state

\* C24: in GameOverTurn a PassAction yields a state equal to the current
\* one, however many times it is applied, and no action leads from
\* GameOverTurn to another phase: in the full-knowledge state and in the game
\* actor.
C24_GameOverAbsorbs ==
    /\ (~IsError(ks) /\ ks.turn_state.type = "GameOverTurn") =>
          /\ KnownState_next_state(ks, PassAction) = ks
          /\ KnownState_next_state(KnownState_next_state(ks, PassAction),
                                   PassAction) = ks
          /\ \A i \in DOMAIN SampleActions :
                TurnStateOf(KnownState_next_state(ks, SampleActions[i]))
                    \in {NoTurn, GameOverTurn}
    /\ game.turn_state.type = "GameOverTurn" =>
          /\ record_action(game, PassAction, <<>>)
                 = [actor |-> game, raised |-> FALSE]
          /\ record_action(record_action(game, PassAction, <<>>).actor,
                           PassAction, <<>>)
                 = [actor |-> game, raised |-> FALSE]
          /\ \A i \in DOMAIN SampleActions :
                \A returned \in ReturnedCards(game, SampleActions[i]) :
                   record_action(game, SampleActions[i], returned)
                       .actor.turn_state = GameOverTurn

\* The game is over for the game actor and the full-knowledge state, and a
\* PassAction applied to either gives it back.
C24_Witness ==
    /\ game.turn_state = GameOverTurn
    /\ ~IsError(ks) /\ ks.turn_state = GameOverTurn
    /\ KnownState_next_state(ks, PassAction) = ks
    /\ record_action(game, PassAction, <<>>).actor = game

\* A second draw of the turn is observed and takes a colored face-up card.
SecondDrawOfColoredFaceUp ==
    /\ game.turn_state.type = "PlayerTrainCardDrawMidTurn"
    /\ outcome' = "observed"
    /\ steps' = steps + 1
    /\ act'.type = "TrainCardPickAction"
    /\ act'.draw_known
    /\ act'.selected_card_if_known # Wild

\* The one-card deal that follows such a draw is observed.
DealAfterSecondDraw ==
    /\ game.turn_state.type = "TrainCardDealTurn"
    /\ game.turn_state.count = 1
    /\ game.turn_state.to_player = NoPlayer
    /\ game.turn_state.next_turn_state.type # "PlayerTrainCardDrawMidTurn"
    /\ act.type = "TrainCardPickAction"
    /\ act.draw_known
    /\ act.selected_card_if_known # Wild
    /\ outcome' = "observed"
    /\ steps' = steps + 1

\* In PlayerTrainCardDrawMidTurn the face-up wildcard is rejected and not
\* enumerated, and every colored card that is face up is accepted.
WildcardBarredOnSecondDraw ==
    /\ game.turn_state.type = "PlayerTrainCardDrawMidTurn" =>
          /\ validate_action(game, TrainCardPickAction(TRUE, Wild)) # None
          /\ \A c \in colors :
                Get(game.face_up_train_cards, c) > 0
                    => validate_action(game, TrainCardPickAction(TRUE, c)) = None
    /\ (~IsError(ks) /\ ks.turn_state.type = "PlayerTrainCardDrawMidTurn") =>
          TrainCardPickAction(TRUE, Wild) \notin LegalActions(ks)

\* The deal turn a colored second draw leads to.
SecondDrawLeadsToDeal ==
    SecondDrawOfColoredFaceUp =>
        game'.turn_state =
            TrainCardDealTurn(1, NoPlayer,
                make_or_end(game.turn_state.last_turn_started,
                            next_player_map(game.turn_state.player)))

\* C25 as stated: in PlayerTrainCardDrawMidTurn(p), taking a face-up wildcard
\* is rejected by validate_action and never enumerated by get_legal_actions,
\* while taking an available colored face-up card is accepted and leads,
\* after the one-card deal, to PlayerStartTurn(next(p)) or the final reveal.
C25_ColoredSecondDrawEndsTurn ==
    /\ []WildcardBarredOnSecondDraw
    /\ [][SecondDrawLeadsToDeal]_vars
    /\ [][DealAfterSecondDraw =>
             game'.turn_state = Unbrief(game.turn_state.next_turn_state)]_vars

\* C25 amended: ... and leads to a one-card deal to the face-up cards whose
\* next turn state is PlayerStartTurn(next(p)) or the final reveal; the deal
\* enters that state unless it brings the face-up wildcards to
\* box.wildcards_to_clear or more, in which case the face-up cards are dealt
\* again first, with the same next turn state.
C25_ColoredSecondDrawEndsTurnAfterDeals ==
    /\ []WildcardBarredOnSecondDraw
    /\ [][SecondDrawLeadsToDeal]_vars
    /\ [][DealAfterSecondDraw =>
             game'.turn_state =
                 IF Get(game.face_up_train_cards, Wild) + Get(act'.cards, Wild)
                        >= wildcards_to_clear
                 THEN TrainCardDealTurn(face_up_train_cards, NoPlayer,
                                        game.turn_state.next_turn_state)
                 ELSE Unbrief(game.turn_state.next_turn_state)]_vars

\* A colored face-up card has just been taken on the second draw while a
\* wildcard was face up: the card dealt in its place comes next, then the
\* next player's turn.
C25_Witness ==
    /\ outcome = "observed"
    /\ act.type = "TrainCardPickAction"
    /\ act.draw_known
    /\ act.selected_card_if_known # Wild
    /\ Get(game.face_up_train_cards, Wild) = 1
    /\ game.turn_state.type = "TrainCardDealTurn"
    /\ game.turn_state.count = 1
    /\ game.turn_state.to_player = NoPlayer
    /\ game.turn_state.next_turn_state.type = "PlayerStartTurn"

\* A deal to the face-up cards is observed that brings the face-up wildcards
\* to box.wildcards_to_clear or more.
ClearingDeal ==
    /\ game.turn_state.type = "TrainCardDealTurn"
    /\ game.turn_state.to_player = NoPlayer
    /\ outcome' = "observed"
    /\ steps' = steps + 1
    /\ act'.type = "TrainCardDealAction"
    /\ Get(game.face_up_train_cards, Wild) + Get(act'.cards, Wild)
         >= wildcards_to_clear

\* C26: when a deal to the face-up pool brings the number of face-up
\* wildcards to box.wildcards_to_clear or more, the whole pool (the cards
\* already face up and the cards just dealt) is moved to
\* discarded_train_cards, and the pool is dealt again by a TrainCardDealTurn
\* of box.face_up_train_cards cards with to_player None and the same
\* next_turn_state.
C26_ClearedPoolDiscarded ==
    [][ClearingDeal =>
          /\ game'.turn_state =
                 TrainCardDealTurn(face_up_train_cards, NoPlayer,
                                   game.turn_state.next_turn_state)
          /\ total(game'.face_up_train_cards) = 0
          /\ SameCounts(game'.discarded_train_cards,
                        merge_train_cards(
                            game.discarded_train_cards,
                            merge_train_cards(game.face_up_train_cards,
                                              act'.cards)))
          /\ ~IsError(ks) =>
                /\ ks'.turn_state = game'.turn_state
                /\ total(ks'.face_up_train_cards) = 0
                /\ SameCounts(ks'.discarded_train_cards,
                              merge_train_cards(
                                  ks.discarded_train_cards,
                                  merge_train_cards(ks.face_up_train_cards,
                                                    act'.cards)))]_vars

\* TrainCards({color: color_cards, None: route.length - color_cards}) and
\* TrainCards({None: route.length}) as their items in order.
cards_to_build_items(cards) ==
    IF DOMAIN cards = {Wild} THEN <<<<Wild, cards[Wild]>>>>
    ELSE LET color == CHOOSE c \in DOMAIN cards : c # Wild
         IN <<<<color, cards[color]>>, <<Wild, cards[Wild]>>>>

\* The LegalActions that get_build_actions of KnownState.get_legal_actions
\* yields: each BuildAction with its probability.
get_build_legal_actions(s, player) ==
    {[action |-> a,
      probability |-> probability_of_having_cards(
                          cards_to_build_items(a.train_cards), 0,
                          s.train_card_pile_distribution)] :
        a \in get_build_actions(s, player)}

\* C27: in a fully-known state, every BuildAction that get_legal_actions
\* enumerates for the acting player carries probability 1.
C27_BuildActionsCertain ==
    (~IsError(ks) /\ ks.turn_state.type = "PlayerStartTurn") =>
        \A legal \in get_build_legal_actions(ks, ks.turn_state.player) :
            legal.probability = Number(Rat(1, 1))

\* The train cards that are in no hand, not face up and not discarded.
CardsLeftToDraw(g) ==
    total(box_train_cards)
      - (SumHands(g.player_hands, PlayerSet)
           + total(g.face_up_train_cards) + total(g.discarded_train_cards))

\* C28: GameActor.validate_action rejects a blind deck draw exactly when no
\* train card is left that is in no hand, not face up and not discarded, the
\* face-up and discarded cards being counted as cards, not as colors.
C28_BlindDrawRejectedWhenDeckEmpty ==
    game.turn_state.type \in {"PlayerStartTurn", "PlayerTrainCardDrawMidTurn"} =>
        (validate_action(game, TrainCardPickAction(FALSE, Wild)) # None
            <=> CardsLeftToDraw(game) = 0)

\* C29: in a player's State, each opponent's train_cards_count is the number
\* of train cards in that opponent's hand after every action, and is never
\* smaller than the number of that opponent's known train cards.
C29_OpponentTrainCardsCounted ==
    \A p \in PlayerSet :
        ~IsError(st[p]) =>
            \A q \in PlayerSet \ {p} :
                /\ st[p].opponent_hands[q].train_cards_count
                     = total(game.player_hands[q].train_cards)
                /\ st[p].opponent_hands[q].train_cards_count
                     >= total(st[p].opponent_hands[q].known_train_cards)

\* ------------------------------------------------------------------------
\* The double-route rule of get_build_actions and of validate_action, applied
\* to boxes of two players and more.  The players are numbered.

InitDoubleRoutes ==
    /\ LoopUnused
    /\ cluster_obj = Unused /\ node = Unused /\ tree = Unused
    /\ card_call \in
         UNION {{[pc |-> "position", box_players |-> n, built_routes |-> b,
                  player |-> p, route |-> r,
                  admitted |-> FALSE, rejection |-> None] :
                    b \in UNION {[built -> 1..n] :
                                   built \in {x \in SUBSET Routes :
                                                Cardinality(x) <= MaxBuilt}},
                    p \in 1..n, r \in Routes} :
                n \in 2..MaxPlayers}

\* The double-route condition of get_build_actions for the route.
EnumerateRoute ==
    /\ card_call.pc = "position"
    /\ card_call' = [card_call EXCEPT !.pc = "enumerated",
                       !.admitted = double_route_condition(
                                        card_call.box_players,
                                        card_call.built_routes,
                                        card_call.player, card_call.route)]
    /\ UNCHANGED <<loop_vars, cluster_obj, node, tree>>

\* The double-route rejections of validate_action for a build of the route.
ValidateRoute ==
    /\ card_call.pc = "enumerated"
    /\ card_call' = [card_call EXCEPT !.pc = "validated",
                       !.rejection = double_route_rejection(
                                         card_call.box_players,
                                         card_call.built_routes,
                                         card_call.player, card_call.route)]
    /\ UNCHANGED <<loop_vars, cluster_obj, node, tree>>

NextDoubleRoutes == EnumerateRoute \/ ValidateRoute

SpecDoubleRoutes == InitDoubleRoutes /\ [][NextDoubleRoutes]_vars

\* C30: for every position, acting player and unbuilt route, the double-route
\* condition of get_build_actions admits the route exactly when
\* validate_action raises neither the rejection of double routes in games
\* of less than N players nor the rejection of two routes next to each other.
C30_DoubleRouteRuleAgrees ==
    (card_call.pc = "validated"
       /\ card_call.route \notin DOMAIN card_call.built_routes) =>
        LET doubles == {d \in double_routes(card_call.route) :
                           d \in DOMAIN card_call.built_routes}
            rejected ==
                \/ card_call.box_players < double_routes_player_minimum
                     /\ doubles # {}
                \/ \E d \in doubles :
                      card_call.built_routes[d] = card_call.player
        IN /\ card_call.admitted <=> card_call.rejection = None
           /\ card_call.rejection # None <=> rejected

\* In a box of enough players the route next to one an opponent built is
\* admitted and not rejected, and so is a route next to an unbuilt one in a
\* smaller box.
C30_Witness ==
    /\ card_call.pc = "validated"
    /\ card_call.route \notin DOMAIN card_call.built_routes
    /\ card_call.box_players >= double_routes_player_minimum
    /\ \E d \in double_routes(card_call.route) :
          /\ d \in DOMAIN card_call.built_routes
          /\ card_call.built_routes[d] # card_call.player
    /\ card_call.admitted
    /\ card_call.rejection = None

\* ------------------------------------------------------------------------
\* The cities reached from the cities seen over the given routes.
RECURSIVE ReachableFrom(_, _)
ReachableFrom(routes, seen) ==
    LET more == UNION {RouteTable[r].cities :
                          r \in {q \in routes : RouteTable[q].cities \cap seen # {}}}
    IN IF more \subseteq seen THEN seen
       ELSE ReachableFrom(routes, seen \cup more)

RoutesBuiltBy(built_routes, p) ==
    {r \in DOMAIN built_routes : built_routes[r] = p}

\* The cities are joined by routes the player built.
ConnectedByRoutes(built_routes, p, cities) ==
    \E a \in cities :
        cities \subseteq ReachableFrom(RoutesBuiltBy(built_routes, p), {a})

\* The BuildActions that validate_action accepts in the position.
ValidatedBuilds(s) ==
    {b \in Proposals(GameActorOf(s)) \cup LegalActions(s) :
        /\ b.type = "BuildAction"
        /\ validate_action(GameActorOf(s), b) = None}

\* C31: a validated BuildAction for route r by player p in PlayerStartTurn(p)
\* yields a state in which built_routes maps r to p, p's remaining_trains is
\* lower by r.length, p's points_so_far is higher by the route points plus
\* the values of p's incomplete destination cards that are now connected,
\* p's train cards are reduced by exactly the paid cards, the paid cards are
\* added to discarded_train_cards, and every other player's hand and built
\* routes are unchanged.
C31_BuildUpdatesState ==
    (~IsError(ks) /\ ks.turn_state.type = "PlayerStartTurn") =>
        \A a \in ValidatedBuilds(ks) :
          \A after \in {KnownState_next_state(ks, a)} :
            LET p == ks.turn_state.player
                r == a.route
                now_connected ==
                    {c \in ks.hands[p].incomplete_destination_cards :
                        ConnectedByRoutes(after.built_routes, p,
                                          CardTable[c].cities)}
            IN /\ ~IsError(after)
               /\ DOMAIN after.built_routes = DOMAIN ks.built_routes \cup {r}
               /\ after.built_routes[r] = p
               /\ \A q \in DOMAIN ks.built_routes :
                     after.built_routes[q] = ks.built_routes[q]
               /\ after.hands[p].remaining_trains
                    = ks.hands[p].remaining_trains - RouteTable[r].length
               /\ after.hands[p].points_so_far
                    = ks.hands[p].points_so_far
                        + route_point_values(RouteTable[r].length)
                        + SumValues(now_connected)
               /\ \A k \in Kinds :
                     /\ Get(after.hands[p].train_cards, k)
                          = Get(ks.hands[p].train_cards, k) - Get(a.train_cards, k)
                     /\ Get(after.discarded_train_cards, k)
                          = Get(ks.discarded_train_cards, k) + Get(a.train_cards, k)
               /\ \A q \in PlayerSet \ {p} : after.hands[q] = ks.hands[q]

\* A build has been observed that completed a destination card of the
\* builder and paid cards into the discards.
C31_Witness ==
    /\ ~IsError(ks)
    /\ outcome = "observed"
    /\ act.type = "BuildAction"
    /\ act.route \in DOMAIN ks.built_routes
    /\ ks.hands[ks.built_routes[act.route]].complete_destination_cards # {}
    /\ total(ks.discarded_train_cards) > 0

\* ------------------------------------------------------------------------
CardsIn(pile) == {pile[i] : i \in 1..Len(pile)}

\* Card c lies below card d in the pile (the last element is the top).
Below(pile, c, d) ==
    \E i, j \in 1..Len(pile) : pile[i] = c /\ pile[j] = d /\ i < j

\* The cards of the initial deal: the top of the shuffled pile.
InitiallyDealt ==
    UNION {{pile[i] : i \in (Len(pile) - Len(players) * starting_destination_cards_max + 1)
                              ..Len(pile)} : pile \in DestinationShuffles}

\* C32: in SimulatedGameActor the destination cards a player does not keep
\* go to the bottom of the destination pile, so that such a card is dealt
\* again only after every card that was in the pile when it was returned:
\* in every step the cards that stay in the pile keep their order, every
\* card that enters the pile lies below the cards already there, and every
\* card that leaves the pile lay above the cards that stay.
C32_ReturnedCardsDealtLast ==
    [][LET old == game.destination_card_pile
           new == game'.destination_card_pile
           kept == CardsIn(old) \cap CardsIn(new)
       IN /\ \A c, d \in kept : Below(old, c, d) => Below(new, c, d)
          /\ \A c \in CardsIn(new) \ CardsIn(old) :
                \A d \in CardsIn(old) : Below(new, c, d)
          /\ \A c \in CardsIn(old) \ CardsIn(new) :
                \A d \in kept : Below(old, d, c)]_vars

\* A card of the initial deal that a player returned has been dealt again.
C32_Witness ==
    /\ game.turn_state.type = "PlayerDestinationCardDrawMidTurn"
    /\ \E c \in game.player_hands[game.turn_state.player]
                   .unselected_destination_cards : c \in InitiallyDealt

\* ------------------------------------------------------------------------
\* The runs of a game up to the middle of the first turn, after the first
\* train card of the turn.


\* The game actor and the KnownState kept beside it after one more action
\* that the game actor accepted.
PlayedFrom(g, state) ==
    LET proposals ==
            IF g.turn_state.player = NoPlayer
            THEN Sim_get_action(g)
            ELSE {[actor |-> g, action |-> a] :
                     a \in {b \in LegalActions(state) :
                               validate_action(g, b) = None}}
    IN UNION {{[game |-> r.game, state |-> r.state] :
                  r \in {observe_action_and_next_state(d.actor, state, d.action, returned) :
                            returned \in ReturnedCards(d.actor, d.action)}} :
              d \in proposals}

Played(runs) == UNION {PlayedFrom(run.game, run.state) : run \in runs}

\* The runs of the given started games in which both players kept every
\* destination card and the first player has drawn the first train card of
\* the first turn: after the initial deal, the two choices, the reveal, the
\* draw and the deal that follows it.
MidTurnRuns(started) ==
    {run \in Played(Played(Played(Played(Played(Played(started)))))) :
        /\ run.game.turn_state.type = "PlayerTrainCardDrawMidTurn"
        /\ run.state.turn_state.type = "PlayerTrainCardDrawMidTurn"
        /\ \A p \in PlayerSet :
              Cardinality(run.state.hands[p].destination_cards)
                = starting_destination_cards_max}

\* The states of the player actors in the middle of the first turn.
MidTurnRootStates ==
    {run.state : run \in
        MidTurnRuns({[game |-> SimulatedGameActor_make(tpile, dpile),
                      state |-> KnownState_make] :
                        tpile \in TrainShuffles, dpile \in DestinationShuffles})}

\* The states of the player actors after the initial deal.
DealtStates ==
    {run.state : run \in
        Played({[game |-> SimulatedGameActor_make(tpile, dpile),
                 state |-> KnownState_make] :
                   tpile \in TrainShuffles, dpile \in DestinationShuffles})}

\* The methods of a MctsActor called one by one by a caller that catches
\* what they raise: the actor of a player is constructed with a state after
\* the initial deal (ks) and __post_init__ makes the root of it; then
\* get_action() and observe_action(action), with the legal actions of the
\* actor's state, are called in any order.  No game actor and no play_game
\* are involved: play_game ends with the first exception, so it never calls
\* observe_action on a tree that get_action has expanded.
InitMctsActor ==
    /\ game = Unused /\ st = Unused /\ should_print_state = Unused
    /\ act = NoAction
    /\ outcome = "init"
    /\ steps = 0
    /\ card_call = Unused /\ cluster_obj = Unused /\ node = Unused
    /\ ks \in DealtStates
    /\ \E p \in PlayerSet, n \in 1..MaxIterations, legal \in Listed(ks) :
          /\ legal.raised = ""
          /\ tree = [player |-> p, iterations |-> n, call |-> "__post_init__",
                     raised |-> "", action |-> NoAction,
                     nodes |-> (<<>> :> Node_make(ks, legal)),
                     made |-> 1, done |-> 0, calls |-> 0]

\* actor.get_action(), the exception caught.
ActorGetAction ==
    /\ tree.calls < MaxGetActions
    /\ tree' \in Mcts_get_action(tree)
    /\ outcome' = "raised"
    /\ UNCHANGED <<game, st, ks, should_print_state, act, steps>>
    /\ UNCHANGED <<card_call, cluster_obj, node>>

\* actor.observe_action(action) with a legal action of the actor's state.
ActorObserveAction ==
    /\ steps < MaxMctsSteps
    /\ \E a \in LegalActions(ks) :
          \E r \in Mcts_observe_action(tree, ks, a) :
             /\ ks' = r.state
             /\ tree' = r.tree
             /\ act' = a
             /\ steps' = steps + 1
             /\ outcome' = IF r.tree.raised = "" THEN "observed" ELSE "raised"
    /\ UNCHANGED <<game, st, should_print_state, card_call, cluster_obj, node>>

NextMctsActor == ActorGetAction \/ ActorObserveAction

SpecMctsActor == InitMctsActor /\ [][NextMctsActor]_vars

\* C14: when the action observed is an edge of the root, the node under that
\* edge becomes the root and keeps its children, visits and utilities, and no
\* node is made; only when it is no edge a fresh node is made for the
\* successor state.
C14_SubtreeReused ==
    [][(steps' = steps + 1 /\ tree'.call = "observe_action" /\ tree'.raised = "") =>
          LET root == tree.nodes[<<>>]
              new_root == tree'.nodes[<<>>]
              edges == {i \in DOMAIN root.children : root.children[i] = act'}
          IN IF edges = {}
             THEN /\ tree'.made = tree.made + 1
                  /\ \E legal \in Listed(KnownState_next_state(root.state, act')) :
                        new_root = Node_make(KnownState_next_state(root.state,
                                                                   act'),
                                             legal)
             ELSE \A i \in edges :
                     /\ tree'.made = tree.made
                     /\ new_root.state = tree.nodes[<<i>>].state
                     /\ new_root.visits = tree.nodes[<<i>>].visits
                     /\ new_root.children = tree.nodes[<<i>>].children
                     /\ new_root.children_visits = tree.nodes[<<i>>].children_visits
                     /\ new_root.children_utilities =
                            tree.nodes[<<i>>].children_utilities]_vars

\* The methods of _Node called one by one on the tree of a root in the
\* middle of a turn: expand on any node with untried actions, and backup
\* from any node with Utility({winner: 1}).  get_action raises before its
\* call of backup, so the method is called on its own.  path is the node the
\* last call was made on, backups counts the calls of backup.
InitNode ==
    /\ LoopUnused
    /\ card_call = Unused /\ cluster_obj = Unused /\ node = Unused
    /\ tree \in UNION {{[call |-> "_Node", raised |-> "",
                         nodes |-> (<<>> :> Node_make(x, legal)),
                         path |-> <<>>, winner |-> NoPlayer, backups |-> 0] :
                           legal \in Listed(x)} :
                      x \in MidTurnRootStates}

\* The tree after a call of expand that raised the exception.
expand_raised(t, path, exception) ==
    [t EXCEPT !.call = "expand", !.raised = exception, !.path = path]

\* node.expand() on a node that has untried actions.  On an expanded node
\* expand returns the node and changes nothing.
NodeExpand ==
    /\ Cardinality(DOMAIN tree.nodes) < MaxNodes
    /\ \E path \in DOMAIN tree.nodes :
          /\ ~expanded(tree.nodes[path])
          /\ \E action \in tree.nodes[path].untried_actions :
                LET state == KnownState_next_state(tree.nodes[path].state, action)
                IN IF IsError(state)
                   THEN tree' = expand_raised(tree, path, state.error)
                   ELSE \E legal \in Listed(state) :
                           IF legal.raised # ""
                           THEN tree' = expand_raised(tree, path, legal.raised)
                           ELSE tree' = [tree EXCEPT
                                           !.call = "expand",
                                           !.raised = "",
                                           !.path = path,
                                           !.nodes = expand(tree.nodes, path,
                                                            action, legal)]
    /\ UNCHANGED <<loop_vars, card_call, cluster_obj, node>>

\* node.backup(Utility({winner: 1})) on a node of the tree.
NodeBackup ==
    /\ tree.backups < MaxBackups
    /\ \E path \in DOMAIN tree.nodes, winner \in PlayerSet :
          tree' = [tree EXCEPT !.call = "backup",
                               !.raised = "",
                               !.path = path,
                               !.winner = winner,
                               !.backups = @ + 1,
                               !.nodes = backup(tree.nodes, path, winner)]
    /\ UNCHANGED <<loop_vars, card_call, cluster_obj, node>>

NextNode == NodeExpand \/ NodeBackup

SpecNode == InitNode /\ [][NextNode]_vars


\* ------------------------------------------------------------------------
\* The engine driven from the middle of the first turn of the games dealt
\* from the pile WildsApart, in which the face-up cards are cleared after a
\* player actor has counted the whole pile as dealt.
WildsApart == <<"red", "blue", Wild, "red", Wild, "blue">>

InitWildsApart ==
    /\ \E run \in MidTurnRuns({[game |-> SimulatedGameActor_make(WildsApart, DestinationPiles[1]),
                                 state |-> KnownState_make]}) :
          /\ game = run.game
          /\ ks = run.state
    /\ st = Unused
    /\ should_print_state = Unused
    /\ act = NoAction
    /\ outcome = "init"
    /\ steps = 0
    /\ card_call = Unused /\ cluster_obj = Unused /\ node = Unused /\ tree = Unused

WildsApartGameStep == GameStepWithin(MaxWildsApartSteps)

WildsApartPlayerStep == PlayerStepWithin(MaxWildsApartSteps)

NextWildsApart == WildsApartGameStep \/ WildsApartPlayerStep

SpecWildsApart == InitWildsApart /\ [][NextWildsApart]_vars

\* The visits of the node of a path, 0 for a node not yet made.
VisitsOf(nodes, q) == IF q \in DOMAIN nodes THEN nodes[q].visits ELSE 0

Parent(q) == SubSeq(q, 1, Len(q) - 1)

\* The child-utility entry of the node of a path in its parent, 0 for a node
\* not yet made.
ChildUtilityOf(nodes, q) ==
    IF q \in DOMAIN nodes THEN nodes[Parent(q)].children_utilities[q[Len(q)]]
    ELSE 0

\* The tree after is the tree before with a backup of Utility({winner: 1})
\* from the node of the path.
BackedUpFrom(before, after, path, winner) ==
    /\ DOMAIN after = DOMAIN before
    /\ \A q \in DOMAIN after :
          /\ after[q].visits
               = VisitsOf(before, q) + (IF IsPrefix(q, path) THEN 1 ELSE 0)
          /\ Len(q) > 0 =>
                LET parent == after[Parent(q)]
                IN ChildUtilityOf(after, q)
                     = ChildUtilityOf(before, q)
                         + (IF IsPrefix(q, path) /\ IsPlayerTurn(parent.state)
                            THEN utility_of(winner, parent.state.turn_state.player)
                            ELSE 0)

\* C33: in a backup from a node every node on the path from that node to the
\* root gets its visits incremented by exactly 1 and no other node changes
\* its visits; the child-utility entry of a node on the path is increased by
\* the utility of its parent's deciding player when the parent is a
\* player-decision node, and the entries under chance parents, and of the
\* nodes off the path, are left unchanged.
C33_BackupAlongPath ==
    [][tree'.backups = tree.backups + 1 =>
          BackedUpFrom(tree.nodes, tree'.nodes, tree'.path, tree'.winner)]_vars

\* A backup has run from a node two levels below the root; a node under a
\* chance node has been backed up, and a node under a player-decision node
\* has been credited the utility of the winner.
C33_Witness ==
    /\ tree.call = "backup"
    /\ Len(tree.path) >= 2
    /\ \E q \in DOMAIN tree.nodes :
          /\ Len(q) > 0
          /\ ~IsPlayerTurn(tree.nodes[Parent(q)].state)
          /\ tree.nodes[q].visits > 0
    /\ \E q \in DOMAIN tree.nodes :
          /\ Len(q) > 0
          /\ IsPlayerTurn(tree.nodes[Parent(q)].state)
          /\ ChildUtilityOf(tree.nodes, q) > 0


\* ------------------------------------------------------------------------
\* The end of the game.  trains maps every player to its remaining trains.

Crossed(trains, p) == trains[p] <= trains_to_end

\* The turn state belongs to a last turn: a PlayerStartTurn of a player at
\* or below the threshold or with the flag, a later phase of a turn with the
\* flag, a deal that leads on to such a phase or to the final reveal, the
\* final reveal and the end of the game.
Ending(t, trains) ==
    CASE t.type = "PlayerStartTurn" ->
           t.last_turn_started \/ Crossed(trains, t.player)
      [] t.type \in {"PlayerTrainCardDrawMidTurn",
                     "PlayerDestinationCardDrawMidTurn",
                     "DestinationCardDealTurn"} -> t.last_turn_started
      [] t.type = "TrainCardDealTurn" ->
           \/ t.next_turn_state.type = "RevealFinalDestinationCardsTurn"
           \/ t.next_turn_state.last_turn_started
      [] t.type \in {"RevealFinalDestinationCardsTurn", "GameOverTurn"} -> TRUE
      [] OTHER -> FALSE

\* One step of the turn state from t to t2, the trains going from trains to
\* trains2.
EndGameOrder(t, trains, t2, trains2) ==
    \* the build that takes the first player to the threshold hands the
    \* turn to the next player, the flag unset
    /\ (/\ t.type = "PlayerStartTurn"
        /\ \A x \in PlayerSet : ~Crossed(trains, x)
        /\ Crossed(trains2, t.player))
         => t2 = PlayerStartTurn(FALSE, next_player_map(t.player))
    \* a turn that is not a last turn is followed by the PlayerStartTurn of
    \* the next player and never by the final reveal
    /\ (~Ending(t, trains) /\ t.type \in PlayerTurnTypes \ {"PlayerInitialDestinationCardChoiceTurn"}
          /\ t2 # t)
         => /\ t2.type \notin {"RevealFinalDestinationCardsTurn", "GameOverTurn"}
            /\ t2.type = "PlayerStartTurn" =>
                  t2 = PlayerStartTurn(FALSE, next_player_map(t.player))
    /\ (~Ending(t, trains) /\ t.type \in {"TrainCardDealTurn", "DestinationCardDealTurn"})
         => t2.type \notin {"RevealFinalDestinationCardsTurn", "GameOverTurn"}
    \* a last turn is followed by its own later phases and then by the final
    \* reveal: no PlayerStartTurn begins after it
    /\ (Ending(t, trains) /\ t2 # t)
         => /\ Ending(t2, trains2)
            /\ t2.type # "PlayerStartTurn"
            /\ t.type = "PlayerStartTurn" /\ t2.type \in PlayerTurnTypes =>
                  t2.player = t.player

TrainsOfGame(g) == [p \in PlayerSet |-> g.player_hands[p].remaining_trains]
TrainsOfKnown(s) == [p \in PlayerSet |-> s.hands[p].remaining_trains]

\* C34: let p be the first player whose build leaves it with remaining
\* trains <= trains_to_end.  After that build every other player takes
\* exactly one more turn, then p takes exactly one more turn, and the phase
\* after p's turn is RevealFinalDestinationCardsTurn; no PlayerStartTurn
\* occurs after it.  Step by step, in the GameActor and in the KnownState:
\* the build hands the turn to the next player with the flag unset, the turn
\* of a player above the threshold is followed by the PlayerStartTurn of the
\* next player, and the turn of a player at or below the threshold is
\* followed only by its own phases, the final reveal and the end.
C34_OneMoreTurnEach ==
    [][/\ EndGameOrder(game.turn_state, TrainsOfGame(game),
                       game'.turn_state, TrainsOfGame(game'))
       /\ (~IsError(ks) /\ ~IsError(ks')) =>
              EndGameOrder(ks.turn_state, TrainsOfKnown(ks),
                           ks'.turn_state, TrainsOfKnown(ks'))]_vars

\* The final reveal has been reached after the last turn of a player at the
\* threshold, the other player having had its turn above the threshold.
C34_Witness ==
    /\ game.turn_state.type = "RevealFinalDestinationCardsTurn"
    /\ ~IsError(ks)
    /\ ks.turn_state.type = "RevealFinalDestinationCardsTurn"
    /\ \E p, q \in PlayerSet :
          /\ Crossed(TrainsOfGame(game), p)
          /\ ~Crossed(TrainsOfGame(game), q)

\* ------------------------------------------------------------------------
\* C35: every TrainCardDealAction enumerated by get_legal_actions for a
\* TrainCardDealTurn with count n deals exactly min(n, number of cards in
\* train_card_pile_distribution) cards in total and, for each color, no more
\* cards than train_card_pile_distribution holds of that color.
C35_DealsWithinPile ==
    (~IsError(ks) /\ ks.turn_state.type = "TrainCardDealTurn") =>
        \A a \in LegalActions(ks) :
            /\ a.type = "TrainCardDealAction"
            /\ total(a.cards)
                 = Min(ks.turn_state.count, total(ks.train_card_pile_distribution))
            /\ \A k \in Kinds :
                  Get(a.cards, k) <= Get(ks.train_card_pile_distribution, k)

\* ------------------------------------------------------------------------
\* The engine driven from the destination pile ShortCardLate.
InitShortCardLate ==
    /\ game = SimulatedGameActor_make(RoundRobin(box_train_cards, 0), ShortCardLate)
    /\ st = Unused
    /\ should_print_state = Unused
    /\ ks = KnownState_make
    /\ act = NoAction
    /\ outcome = "init"
    /\ steps = 0
    /\ card_call = Unused /\ cluster_obj = Unused /\ node = Unused /\ tree = Unused

SpecShortCardLate == InitShortCardLate /\ [][Next]_vars

\* C36: in every reachable KnownState and for every player,
\* complete_destination_cards and incomplete_destination_cards are disjoint
\* with union destination_cards, and a kept destination card is in
\* complete_destination_cards exactly when its two cities are connected in
\* that player's built_clusters.
C36_CompleteIffConnected ==
    ~IsError(ks) =>
        \A p \in PlayerSet :
            LET hand == ks.hands[p]
            IN /\ hand.complete_destination_cards
                    \cap hand.incomplete_destination_cards = {}
               /\ hand.complete_destination_cards
                    \cup hand.incomplete_destination_cards
                    = hand.destination_cards
               /\ \A c \in hand.destination_cards :
                     c \in hand.complete_destination_cards
                       <=> is_connected(ks.built_clusters[p], CardTable[c].cities)

\* ------------------------------------------------------------------------
\* The cards of a kind in a pile.
KindInPile(pile, k) == Cardinality({i \in 1..Len(pile) : pile[i] = k})

\* The hands of the GameActor as hands of train cards.
GameKindCount(g, k) ==
    KindInPile(g.train_card_pile, k)
      + KindInHands(g.player_hands, k, PlayerSet)
      + Get(g.face_up_train_cards, k)
      + Get(g.discarded_train_cards, k)

\* C37: in SimulatedGameActor the cards reshuffled into the draw pile leave
\* the discard pile: at all times, for each color, the cards in
\* train_card_pile plus all hands plus face_up_train_cards plus
\* discarded_train_cards number exactly box.train_cards of that color, so no
\* card exists in two places.  Stated is the half of the equality that the
\* reshuffle is about: the cards never number more than box.train_cards.
C37_ReshuffledCardsLeaveDiscards ==
    \A k \in Kinds : GameKindCount(game, k) <= box_train_cards[k]

\* ------------------------------------------------------------------------
\* GameActor.scores.

longest_path_bonus == 0

\* The loop `for route in built_routes: clusters.connect(*route.cities)` of
\* _get_player_score_info: connect returns a new Clusters and leaves the
\* object it is called on as it was, and the loop drops what it returns.
RECURSIVE connect_each(_, _)
connect_each(clusters, routes) ==
    IF routes = {} THEN clusters
    ELSE LET route == CHOOSE r \in routes : TRUE
             returned == Clusters_connect(clusters, RouteEnds(route)[1],
                                          RouteEnds(route)[2])
         IN connect_each(clusters, routes \ {route})

RECURSIVE cards_points(_, _)
cards_points(clusters, cards) ==
    IF cards = {} THEN 0
    ELSE LET card == CHOOSE c \in cards : TRUE
         IN CardTable[card].value
              * (IF is_connected(clusters.clusters, CardTable[card].cities)
                 THEN 1 ELSE 0 - 1)
              + cards_points(clusters, cards \ {card})

RECURSIVE routes_points(_)
routes_points(routes) ==
    IF routes = {} THEN 0
    ELSE LET route == CHOOSE r \in routes : TRUE
         IN route_point_values(RouteTable[route].length)
              + routes_points(routes \ {route})

MaxOf(S, default) ==
    IF S = {} THEN default ELSE CHOOSE m \in S : \A n \in S : n <= m

\* GameActor._get_player_score_info: <<score, longest path>>
get_player_score_info(g, player) ==
    LET built_routes == {route \in DOMAIN g.built_routes :
                            g.built_routes[route] = player}
        clusters == connect_each(Clusters({}, shortest_paths), built_routes)
        longest ==
            MaxOf({shortest_paths[cities] :
                      cities \in UNION {{pair \in SUBSET cluster :
                                            Cardinality(pair) = 2} :
                                        cluster \in clusters.clusters}}, 0)
    IN << cards_points(clusters, g.player_hands[player].destination_cards)
            + routes_points(built_routes),
          longest >>

\* GameActor.scores
scores(g) ==
    LET player_score_infos == [p \in PlayerSet |-> get_player_score_info(g, p)]
        longest_path == MaxOf({player_score_infos[p][2] : p \in PlayerSet}, 0)
    IN [p \in PlayerSet |->
          IF player_score_infos[p][2] = longest_path
          THEN player_score_infos[p][1] + longest_path_bonus
          ELSE player_score_infos[p][1]]

\* The value of the kept cards of a player: plus for the cards whose cities
\* the routes of the player connect, minus for the others.
RECURSIVE KeptCardsValue(_, _, _)
KeptCardsValue(built_routes, p, cards) ==
    IF cards = {} THEN 0
    ELSE LET card == CHOOSE c \in cards : TRUE
         IN (IF ConnectedByRoutes(built_routes, p, CardTable[card].cities)
             THEN CardTable[card].value ELSE 0 - CardTable[card].value)
              + KeptCardsValue(built_routes, p, cards \ {card})

\* C38: GameActor.scores credits each player +value for every kept
\* destination card whose two cities are connected by the routes that
\* player built and -value for every kept card whose cities are not, in
\* addition to the route points of its built routes.
C38_ConnectedCardsCredited ==
    \A p \in PlayerSet :
        scores(game)[p]
          = KeptCardsValue(game.built_routes, p,
                           game.player_hands[p].destination_cards)
              + routes_points(RoutesBuiltBy(game.built_routes, p))

\* C39: in every reachable state whose turn phase is a player turn (initial
\* destination choice, PlayerStartTurn, PlayerTrainCardDrawMidTurn,
\* PlayerDestinationCardDrawMidTurn), face_up_train_cards holds fewer than
\* wildcards_to_clear wildcards, in the game and in the known state,
\* including right after the initial deal.
C39_FewWildcardsFaceUp ==
    /\ game.turn_state.type \in PlayerTurnTypes
          => Get(game.face_up_train_cards, Wild) < wildcards_to_clear
    /\ TurnStateOf(ks).type \in PlayerTurnTypes
          => Get(ks.face_up_train_cards, Wild) < wildcards_to_clear

\* ------------------------------------------------------------------------
\* The visit counts of the search tree.

====
